---- MODULE Spec2Model ----
(***************************************************************************)
(* Model of the sequence-graphicness engine of src/src/cmr/                *)
(* regular_graphic.c: the witness graph, the hash oracle, the wheel        *)
(* builder, the five extension handlers and the sequence driver.           *)
(***************************************************************************)
EXTENDS Integers, Sequences, FiniteSets, TLC

(***************************************************************************)
(* Bounds of the model.                                                    *)
(***************************************************************************)
\* Largest wheel (first minor) the driver specification starts from.
MaxWheel == 4
\* Largest number of extension steps the matrix of an input provides.
MaxSteps == 2

\* The largest number of rows plus columns of a stored matrix.
MaxLines == 9

\* The rows a query of findParallel is compared with, and the columns of its
\* matrix, when findParallel is studied on its own.
MaxParallelRows == 2

MaxParallelColumns == 3

\* The small matrices of a 1-sum or a 2-sum have at most this many rows and columns.
MaxSumLines == 2

\* The graphs findBipartition is studied on have at most this many nodes and edges.
MaxAuxNodes == 4

MaxAuxEdges == 4

(***************************************************************************)
(* Small helpers.                                                          *)
(***************************************************************************)
NoNode == 0 - 1

Min(S) == CHOOSE x \in S : \A y \in S : x <= y

Max(S) == CHOOSE x \in S : \A y \in S : y <= x

\* The elements of a set of integers in increasing order, as a sequence.
RECURSIVE SortedSeq(_)
SortedSeq(S) == IF S = {} THEN << >> ELSE << Min(S) >> \o SortedSeq(S \ {Min(S)})

(***************************************************************************)
(* The graph abstraction the engine consumes (CMR_GRAPH): nodes are dense  *)
(* indices 0..numNodes-1, an edge is an identifier with two end nodes, a   *)
(* deleted identifier is the next one handed out.                          *)
(***************************************************************************)
NoEdge == << NoNode, NoNode >>

CMRgraphCreateEmpty == [numNodes |-> 0, ends |-> << >>, free |-> << >>]

\* Edge identifiers are 0-based; ends is a sequence indexed by identifier+1.
CMRgraphMemEdges(g) == Len(g.ends)

CMRgraphEdges(g) == {e \in 0..(Len(g.ends) - 1) : g.ends[e + 1] # NoEdge}

CMRgraphNodes(g) == 0..(g.numNodes - 1)

CMRgraphNumNodes(g) == g.numNodes

CMRgraphEdgeU(g, e) == g.ends[e + 1][1]

CMRgraphEdgeV(g, e) == g.ends[e + 1][2]

CMRgraphNodesFirst(g) == 0

CMRgraphAddNode(g) == [g EXCEPT !.numNodes = g.numNodes + 1]

\* The identifier CMRgraphAddEdge hands out for the next edge.
CMRgraphNextEdge(g) == IF g.free # << >> THEN Head(g.free) ELSE Len(g.ends)

\* A graph that never hands out a freed identifier again.
CMRgraphAddEdgeMutant(g, u, v) ==
  [g EXCEPT !.ends = Append(g.ends, << u, v >>)]

CMRgraphAddEdge(g, u, v) ==
  IF g.free # << >>
    THEN [g EXCEPT !.ends[Head(g.free) + 1] = << u, v >>, !.free = Tail(g.free)]
    ELSE [g EXCEPT !.ends = Append(g.ends, << u, v >>)]

CMRgraphDeleteEdge(g, e) ==
  [g EXCEPT !.ends[e + 1] = NoEdge, !.free = << e >> \o g.free]

\* The incident edges of a node in iteration order, and the far end of one.
CMRgraphInc(g, node) ==
  SortedSeq({e \in CMRgraphEdges(g) : CMRgraphEdgeU(g, e) = node \/ CMRgraphEdgeV(g, e) = node})

CMRgraphIncTarget(g, node, e) ==
  IF CMRgraphEdgeU(g, e) = node THEN CMRgraphEdgeV(g, e) ELSE CMRgraphEdgeU(g, e)

(***************************************************************************)
(* Graph-state utilities.                                                  *)
(***************************************************************************)
\* dfsArticulationPoint: st = [visited, disc, time, ap]; the result carries
\* the earliest reachable discovery time of the call.
RECURSIVE dfsArticulationPoint(_, _, _, _, _)
RECURSIVE dfsArticulationPointLoop(_, _, _, _, _, _, _, _, _)
dfsArticulationPointLoop(g, edgesEnabled, node, parentNode, inc, i, st, numChildren, earliest) ==
  IF i > Len(inc)
    THEN [st |-> IF parentNode < 0 /\ numChildren > 1
                   THEN [st EXCEPT !.ap[node] = 1]
                   ELSE st,
          earliest |-> earliest]
    ELSE IF ~edgesEnabled[inc[i]]
      THEN dfsArticulationPointLoop(g, edgesEnabled, node, parentNode, inc, i + 1, st,
                                    numChildren, earliest)
      ELSE LET v == CMRgraphIncTarget(g, node, inc[i]) IN
        IF ~st.visited[v]
          THEN LET r == dfsArticulationPoint(g, edgesEnabled, v, node, st)
                   e1 == IF r.earliest < earliest THEN r.earliest ELSE earliest
                   s1 == IF parentNode >= 0 /\ r.earliest >= r.st.disc[node]
                           THEN [r.st EXCEPT !.ap[node] = 1]
                           ELSE r.st
               IN dfsArticulationPointLoop(g, edgesEnabled, node, parentNode, inc, i + 1, s1,
                                           numChildren + 1, e1)
          ELSE IF v # parentNode /\ st.disc[v] < earliest
            THEN dfsArticulationPointLoop(g, edgesEnabled, node, parentNode, inc, i + 1, st,
                                          numChildren, st.disc[v])
            ELSE dfsArticulationPointLoop(g, edgesEnabled, node, parentNode, inc, i + 1, st,
                                          numChildren, earliest)

dfsArticulationPoint(g, edgesEnabled, node, parentNode, st) ==
  LET s0 == [st EXCEPT !.visited[node] = TRUE, !.time = st.time + 1,
                       !.disc[node] = st.time + 1]
  IN dfsArticulationPointLoop(g, edgesEnabled, node, parentNode, CMRgraphInc(g, node), 1, s0,
                              0, s0.time)

\* An edge array that leaves every edge enabled.
EdgesEnabledWithoutMutant(g, columnEdges, nonzeroColumns) ==
  [e \in CMRgraphEdges(g) |-> TRUE]

\* The edge array that is true except on the column-edges of nonzeroColumns.
EdgesEnabledWithout(g, columnEdges, nonzeroColumns) ==
  [e \in CMRgraphEdges(g) |-> \A i \in 1..Len(nonzeroColumns) : columnEdges[nonzeroColumns[i]] # e]

\* findArticulationPoints: the node array nodesArticulationPoint (0 or 1).
findArticulationPoints(g, columnEdges, nonzeroColumns) ==
  LET st == [visited |-> [v \in CMRgraphNodes(g) |-> FALSE],
             disc |-> [v \in CMRgraphNodes(g) |-> 0],
             time |-> 0,
             ap |-> [v \in CMRgraphNodes(g) |-> 0]]
  IN dfsArticulationPoint(g, EdgesEnabledWithout(g, columnEdges, nonzeroColumns),
                          CMRgraphNodesFirst(g), NoNode, st).st.ap

\* dfsTree: st = [visited, parent].
RECURSIVE dfsTree(_, _, _, _)
RECURSIVE dfsTreeLoop(_, _, _, _, _, _)
dfsTreeLoop(g, edgesTree, node, inc, i, st) ==
  IF i > Len(inc)
    THEN st
    ELSE LET v == CMRgraphIncTarget(g, node, inc[i]) IN
      IF edgesTree[inc[i]] /\ ~st.visited[v]
        THEN dfsTreeLoop(g, edgesTree, node, inc, i + 1,
                         dfsTree(g, edgesTree, [st EXCEPT !.parent[v] = node], v))
        ELSE dfsTreeLoop(g, edgesTree, node, inc, i + 1, st)

dfsTree(g, edgesTree, st, node) ==
  dfsTreeLoop(g, edgesTree, node, CMRgraphInc(g, node), 1, [st EXCEPT !.visited[node] = TRUE])

\* findTreeParents: nodesVisited is allocated and never initialised, and
\* nodesParent is written only for the root and for the nodes the traversal
\* enters, so the call starts from whatever the two buffers hold
\* (scratchVisited, scratchParent) and returns the array nodesParent.
findTreeParents(g, rowEdges, numRows, scratchVisited, scratchParent) ==
  LET edgesTree == [e \in CMRgraphEdges(g) |-> \E row \in 0..(numRows - 1) : rowEdges[row] = e]
      root == CMRgraphNodesFirst(g)
  IN dfsTree(g, edgesTree,
             [visited |-> scratchVisited, parent |-> [scratchParent EXCEPT ![root] = NoNode]],
             root).parent

\* dfsComponents: nodesComponent, with NoNode (SIZE_MAX) for an unlabeled node.
RECURSIVE dfsComponents(_, _, _, _, _)
RECURSIVE dfsComponentsLoop(_, _, _, _, _, _, _)
dfsComponentsLoop(g, edgesEnabled, node, component, inc, i, nodesComponent) ==
  IF i > Len(inc)
    THEN nodesComponent
    ELSE LET v == CMRgraphIncTarget(g, node, inc[i]) IN
      IF edgesEnabled[inc[i]] /\ nodesComponent[v] = NoNode
        THEN dfsComponentsLoop(g, edgesEnabled, node, component, inc, i + 1,
                               dfsComponents(g, edgesEnabled, nodesComponent, v, component))
        ELSE dfsComponentsLoop(g, edgesEnabled, node, component, inc, i + 1, nodesComponent)

dfsComponents(g, edgesEnabled, nodesComponent, node, component) ==
  dfsComponentsLoop(g, edgesEnabled, node, component, CMRgraphInc(g, node), 1,
                    [nodesComponent EXCEPT ![node] = component])

RECURSIVE findComponentsLoop(_, _, _, _, _, _)
findComponentsLoop(g, edgesEnabled, removedNode, source, nodesComponent, component) ==
  IF source >= g.numNodes
    THEN [nodesComponent |-> nodesComponent, numComponents |-> component]
    ELSE IF nodesComponent[source] = NoNode /\ source # removedNode
      THEN findComponentsLoop(g, edgesEnabled, removedNode, source + 1,
                              dfsComponents(g, edgesEnabled, nodesComponent, source, component),
                              component + 1)
      ELSE findComponentsLoop(g, edgesEnabled, removedNode, source + 1, nodesComponent,
                              component)

\* A labeling that leaves the edges of the removed node enabled.
findComponentsMutant(g, columnEdges, removedNode, nonzeroColumns) ==
  findComponentsLoop(g, EdgesEnabledWithout(g, columnEdges, nonzeroColumns), removedNode, 0,
                     [v \in CMRgraphNodes(g) |-> NoNode], 0)

\* findComponents: [nodesComponent, numComponents].
findComponents(g, columnEdges, removedNode, nonzeroColumns) ==
  LET without1 == EdgesEnabledWithout(g, columnEdges, nonzeroColumns)
      edgesEnabled == [e \in CMRgraphEdges(g) |->
                         /\ without1[e]
                         /\ CMRgraphEdgeU(g, e) # removedNode
                         /\ CMRgraphEdgeV(g, e) # removedNode]
  IN findComponentsLoop(g, edgesEnabled, removedNode, 0,
                        [v \in CMRgraphNodes(g) |-> NoNode], 0)

\* dfsBipartite: st = [visited, bipartition, ok]; ok is the returned flag.
RECURSIVE dfsBipartite(_, _, _)
RECURSIVE dfsBipartiteLoop(_, _, _, _, _)
dfsBipartiteLoop(g, node, inc, i, st) ==
  IF i > Len(inc)
    THEN st
    ELSE LET v == CMRgraphIncTarget(g, node, inc[i]) IN
      IF st.visited[v]
        THEN IF st.bipartition[v] = st.bipartition[node]
               THEN [st EXCEPT !.ok = FALSE]
               ELSE dfsBipartiteLoop(g, node, inc, i + 1, st)
        ELSE LET r == dfsBipartite(g, [st EXCEPT !.bipartition[v] = 1 - st.bipartition[node]], v)
             IN IF ~r.ok THEN r ELSE dfsBipartiteLoop(g, node, inc, i + 1, r)

dfsBipartite(g, st, node) ==
  dfsBipartiteLoop(g, node, CMRgraphInc(g, node), 1, [st EXCEPT !.visited[node] = TRUE])

RECURSIVE findBipartitionLoop(_, _, _)
findBipartitionLoop(g, source, st) ==
  IF source >= g.numNodes
    THEN st
    ELSE IF ~st.visited[source]
      THEN LET r == dfsBipartite(g, [st EXCEPT !.bipartition[source] = 0], source)
           IN IF ~r.ok THEN r ELSE findBipartitionLoop(g, source + 1, r)
      ELSE findBipartitionLoop(g, source + 1, st)

\* A search for a bipartition that skips the first node as a source.
findBipartitionMutant(g) ==
  findBipartitionLoop(g, 1, [visited |-> [v \in CMRgraphNodes(g) |-> FALSE],
                             bipartition |-> [v \in CMRgraphNodes(g) |-> NoNode],
                             ok |-> TRUE])

\* findBipartition: [ok |-> isBipartite, bipartition |-> the colouring]; an
\* entry the traversal never wrote keeps the marker NoNode.
findBipartition(g) ==
  findBipartitionLoop(g, 0, [visited |-> [v \in CMRgraphNodes(g) |-> FALSE],
                             bipartition |-> [v \in CMRgraphNodes(g) |-> NoNode],
                             ok |-> TRUE])

(***************************************************************************)
(* Matrices (CMR_CHRMAT, compressed sparse rows) and element identifiers.  *)
(***************************************************************************)
\* rowSlice and entryColumns are 0-based in the code; the sequences here are
\* read through RowSlice and EntryColumn.
RowSlice(m, row) == m.rowSlice[row + 1]

EntryColumn(m, e) == m.entryColumns[e + 1]

RECURSIVE FlattenRows(_, _, _)
FlattenRows(support, row, numRows) ==
  IF row >= numRows THEN << >>
  ELSE SortedSeq(support[row]) \o FlattenRows(support, row + 1, numRows)

RECURSIVE SliceRows(_, _, _, _)
SliceRows(support, row, numRows, at) ==
  IF row >= numRows THEN << at >>
  ELSE << at >> \o SliceRows(support, row + 1, numRows, at + Cardinality(support[row]))

\* The stored matrix whose row r has its nonzeros in the columns support[r],
\* in increasing order.
ChrMat(support, numRows, numColumns) ==
  [numRows |-> numRows, numColumns |-> numColumns,
   rowSlice |-> SliceRows(support, 0, numRows, 0),
   entryColumns |-> FlattenRows(support, 0, numRows)]

\* The row supports of the transpose.
TransposeSupport(support, numRows, numColumns) ==
  [c \in 0..(numColumns - 1) |-> {r \in 0..(numRows - 1) : c \in support[r]}]

CMRrowToElement(row) == 0 - 1 - row

CMRcolumnToElement(column) == 1 + column

CMRelementTranspose(element) == 0 - element

CMRelementIsValid(element) == element # 0

CMRelementIsRow(element) == element < 0

CMRelementToRowIndex(element) == 0 - 1 - element

CMRelementToColumnIndex(element) == element - 1

(***************************************************************************)
(* Hash oracle.                                                            *)
(***************************************************************************)
\* Half the width of the hash domain (LLONG_MAX/2 in the code, here for the
\* 32-bit integers of the model checker).
RANGE_SIGNED_HASH == 1073741823

\* The remainder of C's integer division, which truncates towards zero.
CRemainder(a, b) == IF a >= 0 THEN a % b ELSE 0 - ((0 - a) % b)

projectSignedHash(value) ==
  CRemainder(value + RANGE_SIGNED_HASH - 1, 2 * RANGE_SIGNED_HASH - 1) - (RANGE_SIGNED_HASH - 1)

RECURSIVE createHashVectorFrom(_, _, _)
createHashVectorFrom(e, size, h) ==
  IF e >= size THEN << >>
  ELSE << h >> \o createHashVectorFrom(e + 1, size, projectSignedHash(3 * h))

\* createHashVector: hashVector[e] is read as HashWeight(hashVector, e).
createHashVector(size) == createHashVectorFrom(0, size, 1)

HashWeight(hashVector, index) == hashVector[index + 1]

\* The first loop of findParallel: [hashValue, countNonzeros].
RECURSIVE findParallelHash(_, _, _, _, _, _)
findParallelHash(m, e, beyond, numColumns, hashVector, acc) ==
  IF e >= beyond THEN acc
  ELSE IF EntryColumn(m, e) < numColumns
    THEN findParallelHash(m, e + 1, beyond, numColumns, hashVector,
           [hashValue |-> projectSignedHash(acc.hashValue + HashWeight(hashVector, EntryColumn(m, e))),
            countNonzeros |-> acc.countNonzeros + 1])
    ELSE acc

\* The comparison loop of findParallel: the value of isParallel after it.
RECURSIVE findParallelCompare(_, _, _, _, _, _)
findParallelCompare(m, e, beyond, e2, beyond2, numColumns) ==
  IF ~(e < beyond /\ e2 < beyond2) THEN TRUE
  ELSE IF EntryColumn(m, e) >= numColumns /\ EntryColumn(m, e2) >= numColumns THEN TRUE
  ELSE IF EntryColumn(m, e) # EntryColumn(m, e2) THEN FALSE
  ELSE findParallelCompare(m, e + 1, beyond, e2 + 1, beyond2, numColumns)

RECURSIVE findParallelScan(_, _, _, _, _, _, _)
findParallelScan(m, row, row2, numRows, numColumns, rowHashValues, hashValue) ==
  IF row2 >= numRows THEN 0
  ELSE IF rowHashValues[row2] # hashValue
    THEN findParallelScan(m, row, row2 + 1, numRows, numColumns, rowHashValues, hashValue)
  ELSE IF findParallelCompare(m, RowSlice(m, row), RowSlice(m, row + 1),
                              RowSlice(m, row2), RowSlice(m, row2 + 1), numColumns)
    THEN CMRrowToElement(row2)
    ELSE findParallelScan(m, row, row2 + 1, numRows, numColumns, rowHashValues, hashValue)

findParallel(m, row, numRows, numColumns, rowHashValues, hashVector) ==
  LET h == findParallelHash(m, RowSlice(m, row), RowSlice(m, row + 1), numColumns, hashVector,
                            [hashValue |-> 0, countNonzeros |-> 0])
  IN IF h.countNonzeros = 1
       THEN CMRcolumnToElement(EntryColumn(m, RowSlice(m, row)))
       ELSE findParallelScan(m, row, 0, numRows, numColumns, rowHashValues, h.hashValue)

\* The inner loop without the update of the minor accumulator.
RECURSIVE updateHashValuesRowMutant(_, _, _, _, _, _, _)
updateHashValuesRowMutant(m, major, e, beyond, minorSize, hashVector, hv) ==
  IF e >= beyond THEN hv
  ELSE IF EntryColumn(m, e) < minorSize
    THEN updateHashValuesRowMutant(m, major, e + 1, beyond, minorSize, hashVector,
           [hv EXCEPT !.major[major] =
              projectSignedHash(hv.major[major] + HashWeight(hashVector, EntryColumn(m, e)))])
    ELSE hv

\* updateHashValues: hv = [major, minor], the two accumulator arrays.
RECURSIVE updateHashValuesRow(_, _, _, _, _, _, _)
updateHashValuesRow(m, major, e, beyond, minorSize, hashVector, hv) ==
  IF e >= beyond THEN hv
  ELSE IF EntryColumn(m, e) < minorSize
    THEN LET minor == EntryColumn(m, e) IN
      updateHashValuesRow(m, major, e + 1, beyond, minorSize, hashVector,
        [major |-> [hv.major EXCEPT ![major] =
                      projectSignedHash(hv.major[major] + HashWeight(hashVector, minor))],
         minor |-> [hv.minor EXCEPT ![minor] =
                      projectSignedHash(hv.minor[minor] + HashWeight(hashVector, major))]])
    ELSE hv

\* updateHashValues that leaves out the last new major index.
RECURSIVE updateHashValuesMutant(_, _, _, _, _, _, _)
updateHashValuesMutant(m, majorHashValues, minorHashValues, hashVector, majorFirst, majorBeyond, minorSize) ==
  IF majorFirst + 1 >= majorBeyond
    THEN [major |-> majorHashValues, minor |-> minorHashValues]
    ELSE LET hv == updateHashValuesRow(m, majorFirst, RowSlice(m, majorFirst),
                                       RowSlice(m, majorFirst + 1), minorSize, hashVector,
                                       [major |-> majorHashValues, minor |-> minorHashValues])
         IN updateHashValuesMutant(m, hv.major, hv.minor, hashVector, majorFirst + 1,
                                   majorBeyond, minorSize)

RECURSIVE updateHashValues(_, _, _, _, _, _, _)
updateHashValues(m, majorHashValues, minorHashValues, hashVector, majorFirst, majorBeyond, minorSize) ==
  IF majorFirst >= majorBeyond
    THEN [major |-> majorHashValues, minor |-> minorHashValues]
    ELSE LET hv == updateHashValuesRow(m, majorFirst, RowSlice(m, majorFirst),
                                       RowSlice(m, majorFirst + 1), minorSize, hashVector,
                                       [major |-> majorHashValues, minor |-> minorHashValues])
         IN updateHashValues(m, hv.major, hv.minor, hashVector, majorFirst + 1, majorBeyond,
                             minorSize)

(***************************************************************************)
(* Extension handlers.  A handler returns [isGraphic, graph, rowEdges,     *)
(* columnEdges]; the (1,0) handler also records where it decided.          *)
(***************************************************************************)
\* The eNodes[i] = fNodes[j] tests of checkEdgesAdjacent in the order i, j.
checkEdgesAdjacent(g, e, f) ==
  LET eNodes == << CMRgraphEdgeU(g, e), CMRgraphEdgeV(g, e) >>
      fNodes == << CMRgraphEdgeU(g, f), CMRgraphEdgeV(g, f) >>
      hits == {p \in {<< 1, 1 >>, << 1, 2 >>, << 2, 1 >>, << 2, 2 >>} : eNodes[p[1]] = fNodes[p[2]]}
      first == CHOOSE p \in hits : \A q \in hits : p[1] < q[1] \/ (p[1] = q[1] /\ p[2] <= q[2])
  IN IF hits = {}
       THEN [adjacent |-> FALSE, common |-> NoNode, eOther |-> NoNode, fOther |-> NoNode]
       ELSE [adjacent |-> TRUE, common |-> eNodes[first[1]], eOther |-> eNodes[3 - first[1]],
             fOther |-> fNodes[3 - first[2]]]

\* The edge of the element a new line is parallel to.
ElementEdge(rowEdges, columnEdges, element) ==
  IF CMRelementIsRow(element)
    THEN rowEdges[CMRelementToRowIndex(element)]
    ELSE columnEdges[CMRelementToColumnIndex(element)]

NotGraphic(g, rowEdges, columnEdges) ==
  [isGraphic |-> FALSE, graph |-> g, rowEdges |-> rowEdges, columnEdges |-> columnEdges]

\* The new column-edge is attached to the wrong end.
addToGraph1Row1ColumnMutant(g, rowEdges, columnEdges, baseNumRows, baseNumColumns, rowParallel, columnParallel) ==
  LET rowEdge == ElementEdge(rowEdges, columnEdges, rowParallel)
      columnEdge == ElementEdge(rowEdges, columnEdges, columnParallel)
      adj == checkEdgesAdjacent(g, rowEdge, columnEdge)
      rowSplit == g.numNodes
      g1 == CMRgraphDeleteEdge(CMRgraphAddNode(g), rowEdge)
      g2 == CMRgraphAddEdge(g1, adj.eOther, rowSplit)
      newRowEdge == CMRgraphNextEdge(g2)
      g3 == CMRgraphAddEdge(g2, rowSplit, adj.common)
      newColumnEdge == CMRgraphNextEdge(g3)
      g4 == CMRgraphAddEdge(g3, rowSplit, adj.eOther)
  IN IF adj.adjacent
       THEN [isGraphic |-> TRUE, graph |-> g4,
             rowEdges |-> [rowEdges EXCEPT ![baseNumRows] = newRowEdge],
             columnEdges |-> [columnEdges EXCEPT ![baseNumColumns] = newColumnEdge]]
       ELSE NotGraphic(g, rowEdges, columnEdges)

\* addToGraph1Row1Column (lines 777-830).
addToGraph1Row1Column(g, rowEdges, columnEdges, baseNumRows, baseNumColumns, rowParallel, columnParallel) ==
  LET rowEdge == ElementEdge(rowEdges, columnEdges, rowParallel)
      columnEdge == ElementEdge(rowEdges, columnEdges, columnParallel)
      adj == checkEdgesAdjacent(g, rowEdge, columnEdge)
      rowSplit == g.numNodes
      g1 == CMRgraphDeleteEdge(CMRgraphAddNode(g), rowEdge)
      g2 == CMRgraphAddEdge(g1, adj.eOther, rowSplit)
      newRowEdge == CMRgraphNextEdge(g2)
      g3 == CMRgraphAddEdge(g2, rowSplit, adj.common)
      newColumnEdge == CMRgraphNextEdge(g3)
      g4 == CMRgraphAddEdge(g3, rowSplit, adj.fOther)
  IN IF adj.adjacent
       THEN [isGraphic |-> TRUE, graph |-> g4,
             rowEdges |-> [rowEdges EXCEPT ![baseNumRows] = newRowEdge],
             columnEdges |-> [columnEdges EXCEPT ![baseNumColumns] = newColumnEdge]]
       ELSE NotGraphic(g, rowEdges, columnEdges)

\* A handler whose new column-edge joins the first split node to the shared end.
addToGraph2Rows1ColumnMutant(g, rowEdges, columnEdges, baseNumRows, baseNumColumns, row1Parallel, row2Parallel) ==
  LET row1Edge == ElementEdge(rowEdges, columnEdges, row1Parallel)
      row2Edge == ElementEdge(rowEdges, columnEdges, row2Parallel)
      adj == checkEdgesAdjacent(g, row1Edge, row2Edge)
      row1Split == g.numNodes
      g1 == CMRgraphDeleteEdge(CMRgraphAddNode(g), row1Edge)
      g2 == CMRgraphAddEdge(g1, adj.eOther, row1Split)
      newRow1Edge == CMRgraphNextEdge(g2)
      g3 == CMRgraphAddEdge(g2, row1Split, adj.common)
      row2Split == g3.numNodes
      g4 == CMRgraphDeleteEdge(CMRgraphAddNode(g3), row2Edge)
      g5 == CMRgraphAddEdge(g4, adj.fOther, row2Split)
      newRow2Edge == CMRgraphNextEdge(g5)
      g6 == CMRgraphAddEdge(g5, row2Split, adj.common)
      newColumnEdge == CMRgraphNextEdge(g6)
      g7 == CMRgraphAddEdge(g6, row1Split, adj.common)
  IN IF adj.adjacent
       THEN [isGraphic |-> TRUE, graph |-> g7,
             rowEdges |-> [rowEdges EXCEPT ![baseNumRows] = newRow1Edge,
                                           ![baseNumRows + 1] = newRow2Edge],
             columnEdges |-> [columnEdges EXCEPT ![baseNumColumns] = newColumnEdge]]
       ELSE NotGraphic(g, rowEdges, columnEdges)

addToGraph2Rows1Column(g, rowEdges, columnEdges, baseNumRows, baseNumColumns, row1Parallel, row2Parallel) ==
  LET row1Edge == ElementEdge(rowEdges, columnEdges, row1Parallel)
      row2Edge == ElementEdge(rowEdges, columnEdges, row2Parallel)
      adj == checkEdgesAdjacent(g, row1Edge, row2Edge)
      row1Split == g.numNodes
      g1 == CMRgraphDeleteEdge(CMRgraphAddNode(g), row1Edge)
      g2 == CMRgraphAddEdge(g1, adj.eOther, row1Split)
      newRow1Edge == CMRgraphNextEdge(g2)
      g3 == CMRgraphAddEdge(g2, row1Split, adj.common)
      row2Split == g3.numNodes
      g4 == CMRgraphDeleteEdge(CMRgraphAddNode(g3), row2Edge)
      g5 == CMRgraphAddEdge(g4, adj.fOther, row2Split)
      newRow2Edge == CMRgraphNextEdge(g5)
      g6 == CMRgraphAddEdge(g5, row2Split, adj.common)
      newColumnEdge == CMRgraphNextEdge(g6)
      g7 == CMRgraphAddEdge(g6, row1Split, row2Split)
  IN IF adj.adjacent
       THEN [isGraphic |-> TRUE, graph |-> g7,
             rowEdges |-> [rowEdges EXCEPT ![baseNumRows] = newRow1Edge,
                                           ![baseNumRows + 1] = newRow2Edge],
             columnEdges |-> [columnEdges EXCEPT ![baseNumColumns] = newColumnEdge]]
       ELSE NotGraphic(g, rowEdges, columnEdges)

\* A handler whose new row-edge ends in the far end of the first edge.
addToGraph1Row2ColumnsMutant(g, rowEdges, columnEdges, baseNumRows, baseNumColumns, column1Parallel, column2Parallel) ==
  LET column1Edge == ElementEdge(rowEdges, columnEdges, column1Parallel)
      column2Edge == ElementEdge(rowEdges, columnEdges, column2Parallel)
      adj == checkEdgesAdjacent(g, column1Edge, column2Edge)
      newNode == g.numNodes
      g1 == CMRgraphAddNode(g)
      newColumn1Edge == CMRgraphNextEdge(g1)
      g2 == CMRgraphAddEdge(g1, adj.eOther, newNode)
      newColumn2Edge == CMRgraphNextEdge(g2)
      g3 == CMRgraphAddEdge(g2, adj.fOther, newNode)
      newRowEdge == CMRgraphNextEdge(g3)
      g4 == CMRgraphAddEdge(g3, adj.eOther, newNode)
  IN IF adj.adjacent
       THEN [isGraphic |-> TRUE, graph |-> g4,
             rowEdges |-> [rowEdges EXCEPT ![baseNumRows] = newRowEdge],
             columnEdges |-> [columnEdges EXCEPT ![baseNumColumns] = newColumn1Edge,
                                                 ![baseNumColumns + 1] = newColumn2Edge]]
       ELSE NotGraphic(g, rowEdges, columnEdges)

addToGraph1Row2Columns(g, rowEdges, columnEdges, baseNumRows, baseNumColumns, column1Parallel, column2Parallel) ==
  LET column1Edge == ElementEdge(rowEdges, columnEdges, column1Parallel)
      column2Edge == ElementEdge(rowEdges, columnEdges, column2Parallel)
      adj == checkEdgesAdjacent(g, column1Edge, column2Edge)
      newNode == g.numNodes
      g1 == CMRgraphAddNode(g)
      newColumn1Edge == CMRgraphNextEdge(g1)
      g2 == CMRgraphAddEdge(g1, adj.eOther, newNode)
      newColumn2Edge == CMRgraphNextEdge(g2)
      g3 == CMRgraphAddEdge(g2, adj.fOther, newNode)
      newRowEdge == CMRgraphNextEdge(g3)
      g4 == CMRgraphAddEdge(g3, adj.common, newNode)
  IN IF adj.adjacent
       THEN [isGraphic |-> TRUE, graph |-> g4,
             rowEdges |-> [rowEdges EXCEPT ![baseNumRows] = newRowEdge],
             columnEdges |-> [columnEdges EXCEPT ![baseNumColumns] = newColumn1Edge,
                                                 ![baseNumColumns + 1] = newColumn2Edge]]
       ELSE NotGraphic(g, rowEdges, columnEdges)

\* The degree of a node in the row-edges of nonzeroRows.
NodeDegree(g, rowEdges, nonzeroRows, v) ==
  Cardinality({i \in 1..Len(nonzeroRows) : CMRgraphEdgeU(g, rowEdges[nonzeroRows[i]]) = v})
  + Cardinality({i \in 1..Len(nonzeroRows) : CMRgraphEdgeV(g, rowEdges[nonzeroRows[i]]) = v})

\* A handler that accepts any number of leaves from two on.
addToGraph1ColumnMutant(g, rowEdges, columnEdges, baseNumRows, baseNumColumns, nonzeroRows) ==
  LET leaves == {v \in CMRgraphNodes(g) : NodeDegree(g, rowEdges, nonzeroRows, v) = 1}
      countLeaves == Cardinality(leaves)
      newColumnEdge == CMRgraphNextEdge(g)
  IN IF countLeaves >= 2
       THEN [isGraphic |-> TRUE, graph |-> CMRgraphAddEdge(g, Min(leaves), Max(leaves)),
             rowEdges |-> rowEdges,
             columnEdges |-> [columnEdges EXCEPT ![baseNumColumns] = newColumnEdge]]
       ELSE NotGraphic(g, rowEdges, columnEdges)

addToGraph1Column(g, rowEdges, columnEdges, baseNumRows, baseNumColumns, nonzeroRows) ==
  LET leaves == {v \in CMRgraphNodes(g) : NodeDegree(g, rowEdges, nonzeroRows, v) = 1}
      countLeaves == Cardinality(leaves)
      newColumnEdge == CMRgraphNextEdge(g)
  IN IF countLeaves = 2
       THEN [isGraphic |-> TRUE, graph |-> CMRgraphAddEdge(g, Min(leaves), Max(leaves)),
             rowEdges |-> rowEdges,
             columnEdges |-> [columnEdges EXCEPT ![baseNumColumns] = newColumnEdge]]
       ELSE NotGraphic(g, rowEdges, columnEdges)

\* The walk v, nodesParent[v], ... up to the first negative entry, pushed on a
\* node stack of capacity cap; overflow marks a walk that leaves the stack.
RECURSIVE WalkToRoot(_, _, _, _)
WalkToRoot(nodesParent, v, stack, cap) ==
  IF v < 0 THEN [stack |-> stack, overflow |-> FALSE]
  ELSE IF Len(stack) >= cap THEN [stack |-> stack, overflow |-> TRUE]
  ELSE WalkToRoot(nodesParent, nodesParent[v], Append(stack, v), cap)

\* The sizes of the two stacks after the common tail is popped.
RECURSIVE PruneCommon(_, _, _, _)
PruneCommon(stack0, stack1, size0, size1) ==
  IF size0 > 0 /\ size1 > 0 /\ stack0[size0] = stack1[size1]
    THEN PruneCommon(stack0, stack1, size0 - 1, size1 - 1)
    ELSE << size0, size1 >>

\* The marking of the nodes of one pruned path for nonzero number i (0-based).
RECURSIVE MarkCandidates(_, _, _, _)
MarkCandidates(path, k, i, acc) ==
  IF k > Len(path) THEN acc
  ELSE IF acc.nodesCandidate[path[k]] = i + 1
    THEN MarkCandidates(path, k + 1, i,
           [acc EXCEPT !.nodesCandidate[path[k]] = i + 2,
                       !.countCandidates = acc.countCandidates + 1,
                       !.splitNode = path[k]])
    ELSE MarkCandidates(path, k + 1, i, acc)

\* The loop of addToGraph1Row over the 1-edges: acc = [nodesCandidate,
\* countCandidates, splitNode, undefined].  undefined is set when a walk
\* leaves its stack or the entry read back after the pruning was never pushed.
RECURSIVE CandidateLoop(_, _, _, _, _, _, _)
CandidateLoop(g, columnEdges, nonzeroColumns, nodesParent, cap, i, acc) ==
  IF i >= Len(nonzeroColumns) THEN acc
  ELSE
    LET columnEdge == columnEdges[nonzeroColumns[i + 1]]
        w0 == WalkToRoot(nodesParent, CMRgraphEdgeU(g, columnEdge), << >>, cap)
        w1 == WalkToRoot(nodesParent, CMRgraphEdgeV(g, columnEdge), << >>, cap)
        sizes == PruneCommon(w0.stack, w1.stack, Len(w0.stack), Len(w1.stack))
        path == SubSeq(w0.stack, 1, sizes[1] + 1) \o SubSeq(w1.stack, 1, sizes[2])
        marked == MarkCandidates(path, 1, i, [acc EXCEPT !.countCandidates = 0])
    IN IF w0.overflow \/ w1.overflow \/ sizes[1] + 1 > Len(w0.stack)
         THEN [acc EXCEPT !.undefined = TRUE]
         ELSE IF marked.countCandidates = 0
           THEN marked
           ELSE CandidateLoop(g, columnEdges, nonzeroColumns, nodesParent, cap, i + 1, marked)

\* The auxiliary graph: one node per component, one edge per 1-edge whose two
\* ends are labeled.
RECURSIVE AuxiliaryGraph(_, _, _, _, _, _)
AuxiliaryGraph(g, columnEdges, nonzeroColumns, nodesComponent, i, aux) ==
  IF i >= Len(nonzeroColumns) THEN aux
  ELSE LET e == columnEdges[nonzeroColumns[i + 1]]
           c0 == nodesComponent[CMRgraphEdgeU(g, e)]
           c1 == nodesComponent[CMRgraphEdgeV(g, e)]
       IN AuxiliaryGraph(g, columnEdges, nonzeroColumns, nodesComponent, i + 1,
                         IF c0 # NoNode /\ c1 # NoNode THEN CMRgraphAddEdge(aux, c0, c1) ELSE aux)

\* The loop that moves incident edges of the split node to the sister node.
RECURSIVE ReassignEdges(_, _, _, _, _, _, _, _)
ReassignEdges(g, incidentEdges, i, splitNode, sisterNode, edges1, nodesComponent, bipartition) ==
  IF i > Len(incidentEdges) THEN g
  ELSE LET edge == incidentEdges[i]
           v == IF CMRgraphEdgeU(g, edge) = splitNode
                  THEN CMRgraphEdgeV(g, edge) ELSE CMRgraphEdgeU(g, edge)
           side0 == bipartition[nodesComponent[v]]
           side == IF edges1[edge] THEN 1 - side0 ELSE side0
       IN ReassignEdges(IF side # 0
                          THEN CMRgraphAddEdge(CMRgraphDeleteEdge(g, edge), v, sisterNode)
                          ELSE g,
                        incidentEdges, i + 1, splitNode, sisterNode, edges1, nodesComponent,
                        bipartition)

\* A rejection that has already added the sister node.
RejectedMutant(g, rowEdges, columnEdges, decided, splitNode) ==
  [isGraphic |-> FALSE, graph |-> CMRgraphAddNode(g), rowEdges |-> rowEdges,
   columnEdges |-> columnEdges, decided |-> decided, splitNode |-> splitNode]

\* The result of addToGraph1Row when it rejects: decided names the exit taken.
Rejected(g, rowEdges, columnEdges, decided, splitNode) ==
  [isGraphic |-> FALSE, graph |-> g, rowEdges |-> rowEdges, columnEdges |-> columnEdges,
   decided |-> decided, splitNode |-> splitNode]

\* A connection that leaves out the new row-edge.
addToGraph1RowConnectMutant(g1, rowEdges, columnEdges, baseNumRows, splitNode, sisterNode) ==
  [isGraphic |-> TRUE, graph |-> g1,
   rowEdges |-> [rowEdges EXCEPT ![baseNumRows] = CMRgraphNextEdge(g1)],
   columnEdges |-> columnEdges, decided |-> "graphic", splitNode |-> splitNode]

\* Line 569: the new row-edge joins the split node and the sister node in g1,
\* the graph after the reassignment.
addToGraph1RowConnect(g1, rowEdges, columnEdges, baseNumRows, splitNode, sisterNode) ==
  [isGraphic |-> TRUE, graph |-> CMRgraphAddEdge(g1, splitNode, sisterNode),
   rowEdges |-> [rowEdges EXCEPT ![baseNumRows] = CMRgraphNextEdge(g1)],
   columnEdges |-> columnEdges, decided |-> "graphic", splitNode |-> splitNode]

\* Lines 509-578: the outcome for the bipartition bip of the auxiliary graph.
addToGraph1RowReassign(g, rowEdges, columnEdges, baseNumRows, nonzeroColumns, splitNode, nodesComponent, bip) ==
  IF ~bip.ok
    THEN Rejected(g, rowEdges, columnEdges, "notBipartite", splitNode)
    ELSE addToGraph1RowConnect(
           ReassignEdges(CMRgraphAddNode(g), CMRgraphInc(g, splitNode), 1, splitNode, g.numNodes,
                         [e \in CMRgraphEdges(g) |->
                            \E i \in 1..Len(nonzeroColumns) : columnEdges[nonzeroColumns[i]] = e],
                         nodesComponent, bip.bipartition),
           rowEdges, columnEdges, baseNumRows, splitNode, g.numNodes)

\* Lines 468-508: the auxiliary graph of the components comp and its bipartition.
addToGraph1RowComponents(g, rowEdges, columnEdges, baseNumRows, nonzeroColumns, splitNode, comp) ==
  addToGraph1RowReassign(g, rowEdges, columnEdges, baseNumRows, nonzeroColumns, splitNode,
    comp.nodesComponent,
    findBipartition(AuxiliaryGraph(g, columnEdges, nonzeroColumns, comp.nodesComponent, 0,
                                   [numNodes |-> comp.numComponents, ends |-> << >>,
                                    free |-> << >>])))

\* A handler that goes on when two candidates survive.
addToGraph1RowCandidateMutant(g, rowEdges, columnEdges, baseNumRows, nonzeroColumns, cand) ==
  IF cand.undefined \/ (cand.countCandidates = 2 /\ cand.splitNode = NoNode)
    THEN Rejected(g, rowEdges, columnEdges, "undefined", NoNode)
  ELSE IF cand.countCandidates # 2
    THEN Rejected(g, rowEdges, columnEdges, "noUniqueCandidate", NoNode)
  ELSE addToGraph1RowComponents(g, rowEdges, columnEdges, baseNumRows, nonzeroColumns,
         cand.splitNode, findComponents(g, columnEdges, cand.splitNode, nonzeroColumns))

\* Lines 451-466 and 586-590: the outcome for the result cand of the loop over
\* the 1-edges.
addToGraph1RowCandidate(g, rowEdges, columnEdges, baseNumRows, nonzeroColumns, cand) ==
  IF cand.undefined \/ (cand.countCandidates = 1 /\ cand.splitNode = NoNode)
    THEN Rejected(g, rowEdges, columnEdges, "undefined", NoNode)
  ELSE IF cand.countCandidates # 1
    THEN Rejected(g, rowEdges, columnEdges, "noUniqueCandidate", NoNode)
  ELSE addToGraph1RowComponents(g, rowEdges, columnEdges, baseNumRows, nonzeroColumns,
         cand.splitNode, findComponents(g, columnEdges, cand.splitNode, nonzeroColumns))

\* Lines 383-449 and 592-596: the outcome for the articulation points found.
addToGraph1RowPaths(g, rowEdges, columnEdges, baseNumRows, nonzeroColumns, nodesArticulation, countArticulation, scratchVisited, scratchParent) ==
  IF countArticulation = 0
    THEN Rejected(g, rowEdges, columnEdges, "noArticulationPoint", NoNode)
    ELSE addToGraph1RowCandidate(g, rowEdges, columnEdges, baseNumRows, nonzeroColumns,
           CandidateLoop(g, columnEdges, nonzeroColumns,
                         findTreeParents(g, rowEdges, baseNumRows, scratchVisited, scratchParent),
                         baseNumRows + 1, 0,
                         [nodesCandidate |-> nodesArticulation,
                          countCandidates |-> countArticulation,
                          splitNode |-> NoNode, undefined |-> FALSE]))

CountNonzero(nodeArray) == Cardinality({v \in DOMAIN nodeArray : nodeArray[v] # 0})

addToGraph1RowCount(g, rowEdges, columnEdges, baseNumRows, nonzeroColumns, nodesArticulation, scratchVisited, scratchParent) ==
  addToGraph1RowPaths(g, rowEdges, columnEdges, baseNumRows, nonzeroColumns, nodesArticulation,
                      CountNonzero(nodesArticulation), scratchVisited, scratchParent)

\* addToGraph1Row, for the contents scratchVisited and scratchParent of the
\* two buffers findTreeParents starts from.
addToGraph1Row(g, rowEdges, columnEdges, baseNumRows, baseNumColumns, nonzeroColumns, scratchVisited, scratchParent) ==
  addToGraph1RowCount(g, rowEdges, columnEdges, baseNumRows, nonzeroColumns,
                      findArticulationPoints(g, columnEdges, nonzeroColumns),
                      scratchVisited, scratchParent)

(***************************************************************************)
(* Initial minor builder.                                                  *)
(***************************************************************************)
\* SIZE_MAX, the value of rowWithThree and columnWithThree when there is none.
NoLine == 0 - 1

\* An entry of rowEdges or columnEdges that was never assigned.
Unset == 0 - 2

\* The number of leading entries of a row that lie below wheelSize.
RECURSIVE CountBelow(_, _, _, _)
CountBelow(m, e, beyond, wheelSize) ==
  IF e >= beyond \/ EntryColumn(m, e) >= wheelSize THEN 0
  ELSE 1 + CountBelow(m, e + 1, beyond, wheelSize)

\* The row with three entries in the wheel (the last one found), or NoLine.
LineWithThree(m, wheelSize) ==
  LET three == {row \in 0..(wheelSize - 1) :
                  CountBelow(m, RowSlice(m, row), RowSlice(m, row + 1), wheelSize) = 3}
  IN IF three = {} THEN NoLine ELSE Max(three)

\* The next line of the rim walk: the first entry of line `last` of m that is
\* neither `from` nor (on the line with three entries) the other exception.
NextLine(m, last, from, lineWithThree, otherWithThree) ==
  LET e == RowSlice(m, last)
      c0 == EntryColumn(m, e)
      c1 == IF c0 = from \/ c0 = otherWithThree THEN EntryColumn(m, e + 1) ELSE c0
      c2 == IF c1 = from \/ c1 = otherWithThree THEN EntryColumn(m, e + 2) ELSE c1
      d0 == IF c0 = from THEN EntryColumn(m, e + 1) ELSE c0
  IN IF last = lineWithThree THEN c2 ELSE d0

\* The while loop of createWheel; w = [graph, rowEdges, columnEdges,
\* lastRimNode, lastRow, lastColumn], fuel bounds the iterations explored.
RECURSIVE createWheelLoop(_, _, _, _, _, _)
createWheelLoop(m, t, rowWithThree, columnWithThree, w, fuel) ==
  LET nextColumn == NextLine(m, w.lastRow, w.lastColumn, rowWithThree, columnWithThree)
      nextRow == NextLine(t, nextColumn, w.lastRow, columnWithThree, rowWithThree)
      centerNode == 0
      firstRimNode == 1
      nextRimNode == IF nextRow = 0 THEN firstRimNode ELSE w.graph.numNodes
      g1 == IF nextRow = 0 THEN w.graph ELSE CMRgraphAddNode(w.graph)
      rimEdge == CMRgraphNextEdge(g1)
      g2 == CMRgraphAddEdge(g1, w.lastRimNode, nextRimNode)
      spokeEdge == CMRgraphNextEdge(g2)
      g3 == CMRgraphAddEdge(g2, centerNode, nextRimNode)
      swapped == rowWithThree # NoLine /\ w.lastRow # rowWithThree /\ nextRow # rowWithThree
      w1 == [graph |-> g3,
             rowEdges |-> [w.rowEdges EXCEPT ![w.lastRow] = IF swapped THEN rimEdge ELSE spokeEdge],
             columnEdges |-> [w.columnEdges EXCEPT ![w.lastColumn] =
                                IF swapped THEN spokeEdge ELSE rimEdge],
             lastRimNode |-> nextRimNode, lastRow |-> nextRow, lastColumn |-> nextColumn,
             terminated |-> nextRow = 0]
  IN IF nextRow = 0 \/ fuel = 0 THEN w1
     ELSE createWheelLoop(m, t, rowWithThree, columnWithThree, w1, fuel - 1)

\* createWheel on the empty graph: [graph, rowEdges, columnEdges, terminated].
createWheel(m, t, wheelSize, rowEdges, columnEdges) ==
  LET rowWithThree == LineWithThree(m, wheelSize)
      columnWithThree == LineWithThree(t, wheelSize)
      g == CMRgraphAddNode(CMRgraphAddNode(CMRgraphCreateEmpty))
  IN createWheelLoop(m, t, rowWithThree, columnWithThree,
                     [graph |-> g, rowEdges |-> rowEdges, columnEdges |-> columnEdges,
                      lastRimNode |-> 1, lastRow |-> 0,
                      lastColumn |-> EntryColumn(m, RowSlice(m, 0)), terminated |-> FALSE],
                     2 * wheelSize)

(***************************************************************************)
(* Graph theory used to state the inputs and the invariants (none of it is *)
(* the engine's code).                                                     *)
(***************************************************************************)
\* The nodes reachable from the node set S along the edges E.
RECURSIVE ReachVia(_, _, _)
ReachVia(g, E, S) ==
  LET S2 == S \cup {CMRgraphEdgeV(g, e) : e \in {f \in E : CMRgraphEdgeU(g, f) \in S}}
               \cup {CMRgraphEdgeU(g, e) : e \in {f \in E : CMRgraphEdgeV(g, f) \in S}}
  IN IF S2 = S THEN S ELSE ReachVia(g, E, S2)

\* T is the edge set of a spanning tree of g.
IsSpanningTree(g, T) ==
  /\ T \subseteq CMRgraphEdges(g)
  /\ Cardinality(T) = g.numNodes - 1
  /\ ReachVia(g, T, {0}) = CMRgraphNodes(g)

\* The edges of the tree T on the path between the two ends of edge c.
FundamentalCycle(g, T, c) ==
  {e \in T : CMRgraphEdgeV(g, c) \notin ReachVia(g, T \ {e}, {CMRgraphEdgeU(g, c)})}

\* The wheel with hub k and rim 0..k-1: edge i < k is the spoke of rim node i,
\* edge k+i the rim edge from i to i+1.
WheelGraph(k) ==
  [numNodes |-> k + 1,
   ends |-> [e \in 1..(2 * k) |-> IF e <= k THEN << k, e - 1 >> ELSE << e - k - 1, (e - k) % k >>],
   free |-> << >>]

\* The row supports of the matrix of the wheel for the spanning tree T, with
\* the tree edges as rows and the other edges as columns, both in increasing
\* order of edge.
TreeSupport(k, T) ==
  LET g == WheelGraph(k)
      rows == SortedSeq(T)
      cols == SortedSeq(CMRgraphEdges(g) \ T)
  IN [r \in 0..(k - 1) |-> {c \in 0..(k - 1) : rows[r + 1] \in FundamentalCycle(g, T, cols[c + 1])}]

\* Every row and column has two nonzeros, or one row and one column have
\* three and all others two.
HasWheelCounts(support, k) ==
  LET rowCount == [r \in 0..(k - 1) |-> Cardinality(support[r])]
      colCount == [c \in 0..(k - 1) |-> Cardinality({r \in 0..(k - 1) : c \in support[r]})]
      threeRows == {r \in 0..(k - 1) : rowCount[r] = 3}
      threeCols == {c \in 0..(k - 1) : colCount[c] = 3}
  IN /\ \A r \in 0..(k - 1) : rowCount[r] \in {2, 3}
     /\ \A c \in 0..(k - 1) : colCount[c] \in {2, 3}
     /\ Cardinality(threeRows) = Cardinality(threeCols)
     /\ Cardinality(threeRows) <= 1

\* The wheel matrices of size k in tree order.
WheelSupports(k) ==
  {s \in {TreeSupport(k, T) : T \in {U \in SUBSET (0..(2 * k - 1)) : IsSpanningTree(WheelGraph(k), U)}} :
     HasWheelCounts(s, k)}

IndexPermutations(k) == {p \in [0..(k - 1) -> 0..(k - 1)] : \A i, j \in 0..(k - 1) : p[i] = p[j] => i = j}

\* The wheel matrices of size k with rows and columns in any order.
PermutedWheelSupports(k) ==
  {[r \in 0..(k - 1) |-> {q[c] : c \in s[p[r]]}] :
     s \in WheelSupports(k), p \in IndexPermutations(k), q \in IndexPermutations(k)}

(***************************************************************************)
(* The invariants I1, I2 and I3 of the witness graph state, for the first  *)
(* numRows rows and numColumns columns.                                    *)
(***************************************************************************)
RowSupport(m, row) == {EntryColumn(m, e) : e \in RowSlice(m, row)..(RowSlice(m, row + 1) - 1)}

LineEdges(lineEdges, numLines) == {lineEdges[i] : i \in 0..(numLines - 1)}

Injective(lineEdges, numLines) ==
  \A i, j \in 0..(numLines - 1) : lineEdges[i] = lineEdges[j] => i = j

InvTree(g, rowEdges, numRows) ==
  /\ Injective(rowEdges, numRows)
  /\ IsSpanningTree(g, LineEdges(rowEdges, numRows))

InvCotree(g, rowEdges, columnEdges, numRows, numColumns) ==
  /\ Injective(columnEdges, numColumns)
  /\ LineEdges(columnEdges, numColumns) = CMRgraphEdges(g) \ LineEdges(rowEdges, numRows)

InvCycles(g, m, rowEdges, columnEdges, numRows, numColumns) ==
  /\ LineEdges(rowEdges, numRows) \cup LineEdges(columnEdges, numColumns) \subseteq CMRgraphEdges(g)
  /\ \A c \in 0..(numColumns - 1) :
       {r \in 0..(numRows - 1) : c \in RowSupport(m, r)}
         = {r \in 0..(numRows - 1) :
              rowEdges[r] \in FundamentalCycle(g, LineEdges(rowEdges, numRows), columnEdges[c])}

(***************************************************************************)
(* The sequence driver CMRregularSequenceGraphic as a state machine.       *)
(***************************************************************************)
VARIABLES
  matrix,               \* input: the stored matrix
  transpose,            \* input: its transpose
  lengthSequence,       \* input: number of minors of the sequence
  sequenceNumRows,      \* input: rows of minor i at index i+1
  sequenceNumColumns,   \* input: columns of minor i at index i+1
  pc,                   \* "start", "loop", "exit", "done", "error", "aborted" or "undefined"
  graph,                \* the witness graph *pgraph points to while it lives
  rowEdges,
  columnEdges,
  hashVector,
  rowHashValues,
  columnHashValues,
  extension,            \* loop variable of the driver
  plastGraphicMinor,
  pgraph,               \* output: "null" or "graph"
  pedgeElements,        \* output: [allocated, elements], element of edge e at e+1
  lastCall,             \* what the last step of the driver called and got
  query,                \* the call of findParallel under study (SpecParallel)
  sums,                 \* the matrices of a 1-sum or 2-sum and its result (SpecSum)
  bipartite,            \* the result of findBipartition on graph (SpecBipartite)
  scratchStack          \* the scratch buffers allocated and not yet released

vars == << matrix, transpose, lengthSequence, sequenceNumRows, sequenceNumColumns, pc, graph,
           rowEdges, columnEdges, hashVector, rowHashValues, columnHashValues, extension,
           plastGraphicMinor, pgraph, pedgeElements, lastCall, query, sums, bipartite,
           scratchStack >>

inputs == << matrix, transpose, lengthSequence, sequenceNumRows, sequenceNumColumns >>

NumRowsAt(i) == sequenceNumRows[i + 1]

NumColumnsAt(i) == sequenceNumColumns[i + 1]

(***************************************************************************)
(* The scratch stack.  A stack array is pushed by CMRallocStackArray and   *)
(* popped by CMRfreeStackArray; a graph made by CMRgraphCreateEmpty lives  *)
(* on the heap until CMRgraphFree.  A trace is the sequence of these calls *)
(* a function makes on one path through it.                                *)
(***************************************************************************)
Alloc(name) == << [op |-> "alloc", name |-> name] >>

Free(name) == << [op |-> "free", name |-> name] >>

Create(name) == << [op |-> "create", name |-> name] >>

Destroy(name) == << [op |-> "destroy", name |-> name] >>

\* CMRallocStackArray pushes the buffer.
CMRallocStackArray(st, name) == Append(st, name)

\* CMRfreeStackArray pops the top of the stack.
CMRfreeStackArray(st, name) == IF st = << >> THEN st ELSE SubSeq(st, 1, Len(st) - 1)

\* The stack after the calls events[i..] are made on the stack st.
RECURSIVE RunScratch(_, _, _)
RunScratch(events, i, st) ==
  IF i > Len(events) THEN st
  ELSE RunScratch(events, i + 1,
                  IF events[i].op = "alloc" THEN CMRallocStackArray(st, events[i].name)
                  ELSE IF events[i].op = "free" THEN CMRfreeStackArray(st, events[i].name)
                  ELSE st)

\* Lines 88-92 and 113-115.
findArticulationPointsScratch ==
  Alloc("nodesVisited") \o Alloc("nodesDiscoveryTime") \o Alloc("edgesEnabled")
    \o Free("edgesEnabled") \o Free("nodesDiscoveryTime") \o Free("nodesVisited")

\* Lines 166-169 and 184-185.
findTreeParentsScratch ==
  Alloc("nodesVisited") \o Alloc("edgesTree") \o Free("edgesTree") \o Free("nodesVisited")

\* Lines 236 and 270.
findComponentsScratch == Alloc("edgesEnabled") \o Free("edgesEnabled")

\* Lines 326 and 348.
findBipartitionScratch == Alloc("nodesVisited") \o Free("nodesVisited")

\* Lines 398-404 and 451-453: the buffers of the loop over the 1-edges.
addToGraph1RowPathsScratch ==
  Alloc("nodesParent") \o findTreeParentsScratch \o Alloc("nodeStacks[0]")
    \o Alloc("nodeStacks[1]") \o Free("nodeStacks[1]") \o Free("nodeStacks[0]")
    \o Free("nodesParent")

\* Lines 470-508: the buffers and the graph made up to the bipartition.
addToGraph1RowComponentsScratch ==
  Alloc("nodesComponent") \o findComponentsScratch \o Create("auxiliaryGraph")
    \o Alloc("componentAuxiliaryNodes") \o Alloc("bipartition") \o findBipartitionScratch

\* Lines 525-537 and 571-572: the buffers of the reassignment.
addToGraph1RowReassignScratch ==
  Alloc("edges1") \o Alloc("incidentEdges") \o Free("incidentEdges") \o Free("edges1")

\* An exit that keeps the bipartition buffer.
addToGraph1RowReleaseMutant ==
  Free("componentAuxiliaryNodes") \o Free("nodesComponent") \o Destroy("auxiliaryGraph")

\* Lines 580-584.
addToGraph1RowRelease ==
  Free("bipartition") \o Free("componentAuxiliaryNodes") \o Free("nodesComponent")
    \o Destroy("auxiliaryGraph")

\* Lines 380-382 and 598: the trace of addToGraph1Row on the path that ends
\* with the decision decided.
addToGraph1RowScratch(decided) ==
  Alloc("nodesCandidate") \o findArticulationPointsScratch
    \o (IF decided = "noArticulationPoint" THEN << >>
        ELSE addToGraph1RowPathsScratch
               \o (IF decided = "noUniqueCandidate" THEN << >>
                   ELSE addToGraph1RowComponentsScratch
                          \o (IF decided = "notBipartite" THEN << >>
                              ELSE addToGraph1RowReassignScratch)
                          \o addToGraph1RowRelease))
    \o Free("nodesCandidate")

\* Lines 984 and 1022.
addToGraph1ColumnScratch == Alloc("nodeDegrees") \o Free("nodeDegrees")

\* The trace of a handler; the three small handlers allocate nothing.
HandlerScratch(handler, decided) ==
  IF handler = "addToGraph1Row" THEN addToGraph1RowScratch(decided)
  ELSE IF handler = "addToGraph1Column" THEN addToGraph1ColumnScratch
  ELSE << >>

\* Lines 1202-1213: createHashVector returns with its buffer allocated.
DriverAllocations ==
  Alloc("hashVector") \o Alloc("rowEdges") \o Alloc("columnEdges")
    \o Alloc("rowHashValues") \o Alloc("columnHashValues")

\* Lines 1331-1335.
DriverReleases ==
  Free("columnHashValues") \o Free("rowHashValues") \o Free("columnEdges")
    \o Free("rowEdges") \o Free("hashVector")

NoCall ==
  [handler |-> "none", isGraphic |-> FALSE, decided |-> "none", queries |-> << >>,
   splitNode |-> NoNode, zeroed |-> TRUE]

\* Lines 1198-1224: allocations, createWheel and the first hash update.
DriverStart ==
  /\ pc = "start"
  /\ LET w == createWheel(matrix, transpose, NumRowsAt(0),
                          [r \in 0..(matrix.numRows - 1) |-> Unset],
                          [c \in 0..(matrix.numColumns - 1) |-> Unset])
         hVector == createHashVector(IF matrix.numRows > matrix.numColumns
                                       THEN matrix.numRows ELSE matrix.numColumns)
         hv == updateHashValues(matrix, [r \in 0..(matrix.numRows - 1) |-> 0],
                                [c \in 0..(matrix.numColumns - 1) |-> 0], hVector,
                                0, NumRowsAt(0), NumColumnsAt(0))
     IN /\ graph' = w.graph
        /\ rowEdges' = w.rowEdges
        /\ columnEdges' = w.columnEdges
        /\ hashVector' = hVector
        /\ rowHashValues' = hv.major
        /\ columnHashValues' = hv.minor
        /\ pc' = IF w.terminated THEN "loop" ELSE "undefined"
        /\ lastCall' = [NoCall EXCEPT !.handler = "createWheel", !.isGraphic = TRUE]
  /\ extension' = 1
  /\ plastGraphicMinor' = 0
  /\ pgraph' = "graph"
  /\ scratchStack' = RunScratch(DriverAllocations, 1, scratchStack)
  /\ UNCHANGED << inputs, pedgeElements, query, sums, bipartite >>

\* The index of the step is recorded before the result is looked at.
AfterHandlerMutant(r, call) ==
  LET hv1 == updateHashValues(matrix, rowHashValues, columnHashValues, hashVector,
                              NumRowsAt(extension - 1), NumRowsAt(extension),
                              NumColumnsAt(extension - 1))
      hv2 == updateHashValues(transpose, hv1.minor, hv1.major, hashVector,
                              NumColumnsAt(extension - 1), NumColumnsAt(extension),
                              NumRowsAt(extension))
  IN /\ graph' = r.graph
     /\ rowEdges' = r.rowEdges
     /\ columnEdges' = r.columnEdges
     /\ lastCall' = call
     /\ IF r.isGraphic
          THEN /\ plastGraphicMinor' = extension
               /\ rowHashValues' = hv2.minor
               /\ columnHashValues' = hv2.major
               /\ extension' = extension + 1
               /\ pc' = "loop"
          ELSE /\ plastGraphicMinor' = extension
               /\ pc' = "exit"
               /\ UNCHANGED << rowHashValues, columnHashValues, extension >>
     /\ scratchStack' = RunScratch(HandlerScratch(call.handler, call.decided), 1, scratchStack)
     /\ UNCHANGED << inputs, hashVector, pgraph, pedgeElements, query, sums, bipartite >>

\* Lines 1303-1311 after a handler returned r: record the result and, when
\* the step was graphic, update the hash accumulators.
AfterHandler(r, call) ==
  LET hv1 == updateHashValues(matrix, rowHashValues, columnHashValues, hashVector,
                              NumRowsAt(extension - 1), NumRowsAt(extension),
                              NumColumnsAt(extension - 1))
      hv2 == updateHashValues(transpose, hv1.minor, hv1.major, hashVector,
                              NumColumnsAt(extension - 1), NumColumnsAt(extension),
                              NumRowsAt(extension))
  IN /\ graph' = r.graph
     /\ rowEdges' = r.rowEdges
     /\ columnEdges' = r.columnEdges
     /\ lastCall' = call
     /\ IF r.isGraphic
          THEN /\ plastGraphicMinor' = extension
               /\ rowHashValues' = hv2.minor
               /\ columnHashValues' = hv2.major
               /\ extension' = extension + 1
               /\ pc' = "loop"
          ELSE /\ pc' = "exit"
               /\ UNCHANGED << plastGraphicMinor, rowHashValues, columnHashValues, extension >>
     /\ scratchStack' = RunScratch(HandlerScratch(call.handler, call.decided), 1, scratchStack)
     /\ UNCHANGED << inputs, hashVector, pgraph, pedgeElements, query, sums, bipartite >>

\* The step ran into undefined behaviour: nothing is known of what follows.
Undefined(call) ==
  /\ pc' = "undefined"
  /\ lastCall' = call
  /\ UNCHANGED << inputs, graph, rowEdges, columnEdges, hashVector, rowHashValues,
                  columnHashValues, extension, plastGraphicMinor, pgraph, pedgeElements, query, sums,
                  bipartite, scratchStack >>

InLoop(newRows, newColumns) ==
  /\ pc = "loop"
  /\ extension < lengthSequence
  /\ NumRowsAt(extension) - NumRowsAt(extension - 1) = newRows
  /\ NumColumnsAt(extension) - NumColumnsAt(extension - 1) = newColumns

\* A query of findParallel by the driver, as recorded in lastCall.queries.
RowQuery(row) ==
  [onTranspose |-> FALSE, row |-> row, numRows |-> NumRowsAt(extension - 1),
   numColumns |-> NumColumnsAt(extension - 1),
   result |-> findParallel(matrix, row, NumRowsAt(extension - 1), NumColumnsAt(extension - 1),
                           rowHashValues, hashVector)]

ColumnQuery(column) ==
  [onTranspose |-> TRUE, row |-> column, numRows |-> NumColumnsAt(extension - 1),
   numColumns |-> NumRowsAt(extension - 1),
   result |-> findParallel(transpose, column, NumColumnsAt(extension - 1),
                           NumRowsAt(extension - 1), columnHashValues, hashVector)]

\* The element names a line whose edge was assigned.
Resolves(element) ==
  /\ CMRelementIsValid(element)
  /\ ElementEdge(rowEdges, columnEdges, element) # Unset

SmallStep(handler, q1, q2, e1, e2, r) ==
  IF Resolves(e1) /\ Resolves(e2)
    THEN AfterHandler(r, [NoCall EXCEPT !.handler = handler, !.isGraphic = r.isGraphic,
                            !.decided = IF r.isGraphic THEN "graphic" ELSE "notAdjacent",
                            !.queries = << q1, q2 >>])
    ELSE Undefined([NoCall EXCEPT !.handler = handler, !.decided = "undefined",
                      !.queries = << q1, q2 >>])

\* Lines 1235-1247.
Step1Row1Column ==
  /\ InLoop(1, 1)
  /\ LET q1 == RowQuery(NumRowsAt(extension - 1))
         q2 == ColumnQuery(NumColumnsAt(extension - 1))
         rowParallel == q1.result
         columnParallel == CMRelementTranspose(q2.result)
     IN SmallStep("addToGraph1Row1Column", q1, q2, rowParallel, columnParallel,
                  addToGraph1Row1Column(graph, rowEdges, columnEdges, NumRowsAt(extension - 1),
                                        NumColumnsAt(extension - 1), rowParallel, columnParallel))

\* Lines 1248-1260.
Step2Rows1Column ==
  /\ InLoop(2, 1)
  /\ LET q1 == RowQuery(NumRowsAt(extension - 1))
         q2 == RowQuery(NumRowsAt(extension - 1) + 1)
     IN SmallStep("addToGraph2Rows1Column", q1, q2, q1.result, q2.result,
                  addToGraph2Rows1Column(graph, rowEdges, columnEdges, NumRowsAt(extension - 1),
                                         NumColumnsAt(extension - 1), q1.result, q2.result))

\* Lines 1261-1273.
Step1Row2Columns ==
  /\ InLoop(1, 2)
  /\ LET q1 == ColumnQuery(NumColumnsAt(extension - 1))
         q2 == ColumnQuery(NumColumnsAt(extension - 1) + 1)
         column1Parallel == CMRelementTranspose(q1.result)
         column2Parallel == CMRelementTranspose(q2.result)
     IN SmallStep("addToGraph1Row2Columns", q1, q2, column1Parallel, column2Parallel,
                  addToGraph1Row2Columns(graph, rowEdges, columnEdges, NumRowsAt(extension - 1),
                                         NumColumnsAt(extension - 1), column1Parallel,
                                         column2Parallel))

\* The leading entries of a line of m that lie below bound (lines 1276-1282
\* and 1291-1297).
NonzerosBelow(m, line, bound) ==
  SubSeq(m.entryColumns, RowSlice(m, line) + 1,
         RowSlice(m, line) + CountBelow(m, RowSlice(m, line), RowSlice(m, line + 1), bound))

\* Lines 1274-1286.
Step1Column ==
  /\ InLoop(0, 1)
  /\ LET nonzeroRows == NonzerosBelow(transpose, NumColumnsAt(extension - 1),
                                      NumRowsAt(extension - 1))
         r == addToGraph1Column(graph, rowEdges, columnEdges, NumRowsAt(extension - 1),
                                NumColumnsAt(extension - 1), nonzeroRows)
     IN AfterHandler(r, [NoCall EXCEPT !.handler = "addToGraph1Column",
                           !.isGraphic = r.isGraphic,
                           !.decided = IF r.isGraphic THEN "graphic" ELSE "notPath"])

\* What the buffer nodesVisited of findTreeParents can hold when it is
\* allocated: zeroes, one stale mark, or marks everywhere.
ScratchVisited(g) ==
  {[v \in CMRgraphNodes(g) |-> FALSE], [v \in CMRgraphNodes(g) |-> TRUE]}
    \cup {[v \in CMRgraphNodes(g) |-> v = u] : u \in CMRgraphNodes(g)}

\* What the buffer nodesParent of addToGraph1Row can hold when it is
\* allocated: the same stale value everywhere.
ScratchParent(g) ==
  {[v \in CMRgraphNodes(g) |-> p] : p \in {NoNode} \cup CMRgraphNodes(g)}

\* Lines 1303-1311 after addToGraph1Row returned r.
AfterRow(r, zeroed, unassigned) ==
  IF unassigned \/ r.decided = "undefined"
    THEN Undefined([NoCall EXCEPT !.handler = "addToGraph1Row", !.decided = "undefined",
                                  !.zeroed = zeroed])
    ELSE AfterHandler(r, [NoCall EXCEPT !.handler = "addToGraph1Row",
                                        !.isGraphic = r.isGraphic, !.decided = r.decided,
                                        !.splitNode = r.splitNode, !.zeroed = zeroed])

Step1RowOn(nonzeroColumns, scratchVisited, scratchParent) ==
  IF \E i \in 1..Len(nonzeroColumns) : columnEdges[nonzeroColumns[i]] = Unset
    THEN AfterRow(NoCall, TRUE, TRUE)
    ELSE AfterRow(addToGraph1Row(graph, rowEdges, columnEdges, NumRowsAt(extension - 1),
                                 NumColumnsAt(extension - 1), nonzeroColumns, scratchVisited,
                                 scratchParent),
                  \A v \in CMRgraphNodes(graph) : ~scratchVisited[v], FALSE)

\* Lines 1287-1301.
Step1Row ==
  /\ InLoop(1, 0)
  /\ \E scratchVisited \in ScratchVisited(graph), scratchParent \in ScratchParent(graph) :
       Step1RowOn(NonzerosBelow(matrix, NumRowsAt(extension - 1), NumColumnsAt(extension - 1)),
                  scratchVisited, scratchParent)

\* The writes edgeElements[lineEdges[line]] = element of lines 1321-1324 for
\* line, line+1, ...; an entry of lineEdges that was never assigned reads as
\* garbage.
RECURSIVE WriteEdgeElements(_, _, _, _, _, _)
WriteEdgeElements(edgeElements, lineEdges, line, numLines, isRow, garbage) ==
  IF line >= numLines THEN edgeElements
  ELSE LET edge == IF lineEdges[line] = Unset THEN garbage ELSE lineEdges[line]
       IN WriteEdgeElements([edgeElements EXCEPT ![edge + 1] =
                               IF isRow THEN CMRrowToElement(line) ELSE CMRcolumnToElement(line)],
                            lineEdges, line + 1, numLines, isRow, garbage)

\* The indices an unassigned entry of rowEdges or columnEdges is read as: an
\* edge of the graph, the last slot of edgeElements, or one beyond the array.
GarbageIndices(size) == {0, size - 1, size}

\* The graph is kept as soon as one step was graphic.
ReturnsGraphMutant == plastGraphicMinor > 0

\* Line 1314: the whole sequence was found graphic.
ReturnsGraph == plastGraphicMinor = lengthSequence - 1

\* Lines 1314-1337: the loop is over or was left by break.  An unassigned
\* entry of rowEdges or columnEdges is read as the index garbage, which may
\* lie beyond the array.
DriverFinish ==
  /\ \/ pc = "exit"
     \/ pc = "loop" /\ extension >= lengthSequence
  /\ LET size == matrix.numRows + matrix.numColumns
         unassigned == \/ \E row \in 0..(matrix.numRows - 1) : rowEdges[row] = Unset
                       \/ \E column \in 0..(matrix.numColumns - 1) : columnEdges[column] = Unset
     IN IF ReturnsGraph
          THEN \E garbage \in GarbageIndices(size) :
                 IF unassigned /\ garbage = size
                   THEN /\ pc' = "undefined"
                        /\ UNCHANGED << pgraph, pedgeElements >>
                   ELSE /\ pc' = "done"
                        /\ pedgeElements' =
                             [allocated |-> TRUE,
                              elements |->
                                WriteEdgeElements(
                                  WriteEdgeElements([e \in 1..size |-> 0], rowEdges, 0,
                                                    matrix.numRows, TRUE, garbage),
                                  columnEdges, 0, matrix.numColumns, FALSE, garbage)]
                        /\ UNCHANGED pgraph
          ELSE /\ pc' = "done"
               /\ pgraph' = "null"
               /\ UNCHANGED pedgeElements
  /\ lastCall' = NoCall
  /\ scratchStack' = RunScratch(DriverReleases, 1, scratchStack)
  /\ UNCHANGED << inputs, graph, rowEdges, columnEdges, hashVector, rowHashValues,
                  columnHashValues, extension, plastGraphicMinor, query, sums,
                  bipartite >>

(***************************************************************************)
(* The inputs: a wheel matrix followed by extension steps of the five      *)
(* shapes, each new line distinct from the lines it joins.                 *)
(***************************************************************************)
\* inp = [support, numRows, numColumns, seqRows, seqCols]
ColumnSupport(inp, c) == {r \in 0..(inp.numRows - 1) : c \in inp.support[r]}

RowSupports(inp) == {inp.support[r] : r \in 0..(inp.numRows - 1)}

ColumnSupports(inp) == {ColumnSupport(inp, c) : c \in 0..(inp.numColumns - 1)}

\* The supports a new row of a (1,1), (2,1) step has on the old columns: that
\* of an old row, or a single column.
RowShapes(inp) == RowSupports(inp) \cup {{c} : c \in 0..(inp.numColumns - 1)}

ColumnShapes(inp) == ColumnSupports(inp) \cup {{r} : r \in 0..(inp.numRows - 1)}

\* inp with the rows newRows (supports) and the columns newColumns (supports)
\* added as one step.
Extended(inp, newRows, newColumns) ==
  LET nr == inp.numRows + Len(newRows)
      nc == inp.numColumns + Len(newColumns)
      base == [r \in 0..(nr - 1) |->
                 IF r < inp.numRows THEN inp.support[r] ELSE newRows[r - inp.numRows + 1]]
  IN [support |-> [r \in 0..(nr - 1) |->
                     base[r] \cup {inp.numColumns + j - 1 : j \in {i \in 1..Len(newColumns) :
                                                                   r \in newColumns[i]}}],
      numRows |-> nr, numColumns |-> nc,
      seqRows |-> Append(inp.seqRows, nr), seqCols |-> Append(inp.seqCols, nc)]

Extensions(inp) ==
  LET nr == inp.numRows
      nc == inp.numColumns
  IN {Extended(inp, << S >>, << >>) :
        S \in {T \in SUBSET (0..(nc - 1)) : Cardinality(T) >= 2 /\ T \notin RowSupports(inp)}}
     \cup {Extended(inp, << >>, << R >>) :
        R \in {T \in SUBSET (0..(nr - 1)) : Cardinality(T) >= 2 /\ T \notin ColumnSupports(inp)}}
     \cup {Extended(inp, << S >>, << R \cup {nr} >>) : S \in RowShapes(inp), R \in ColumnShapes(inp)}
     \cup {Extended(inp, << p[1], p[2] >>, << {nr, nr + 1} >>) :
        p \in {q \in RowShapes(inp) \X RowShapes(inp) : q[1] # q[2]}}
     \cup {Extended(inp, << {nc, nc + 1} >>, << p[1] \cup {nr}, p[2] \cup {nr} >>) :
        p \in {q \in ColumnShapes(inp) \X ColumnShapes(inp) : q[1] # q[2]}}

\* No line of inp is zero or a unit vector, and no two rows and no two columns
\* are equal, as in every 3-connected matrix.
Simple(inp) ==
  /\ \A r \in 0..(inp.numRows - 1) : Cardinality(inp.support[r]) >= 2
  /\ \A c \in 0..(inp.numColumns - 1) : Cardinality(ColumnSupport(inp, c)) >= 2
  /\ Cardinality(RowSupports(inp)) = inp.numRows
  /\ Cardinality(ColumnSupports(inp)) = inp.numColumns

WheelInputs ==
  UNION {{[support |-> s, numRows |-> k, numColumns |-> k, seqRows |-> << k >>,
           seqCols |-> << k >>] : s \in WheelSupports(k)} : k \in 3..MaxWheel}

RECURSIVE InputsUpTo(_)
InputsUpTo(n) ==
  IF n = 0 THEN WheelInputs
  ELSE LET shorter == InputsUpTo(n - 1)
       IN shorter \cup UNION {{x \in Extensions(inp) : x.numRows + x.numColumns <= MaxLines /\ Simple(x)} :
                                inp \in shorter}

NoQuery ==
  [called |-> FALSE, row |-> 0, numRows |-> 0, numColumns |-> 0, rowHashValues |-> << >>,
   result |-> 0]

NoSum ==
  [called |-> "none", first |-> << >>, second |-> << >>, firstMarker |-> 0,
   secondMarker |-> 0, result |-> << >>]

InitDriver(inp, length, ps) ==
  /\ matrix = ChrMat(inp.support, inp.numRows, inp.numColumns)
  /\ transpose = ChrMat(TransposeSupport(inp.support, inp.numRows, inp.numColumns),
                        inp.numColumns, inp.numRows)
  /\ lengthSequence = length
  /\ sequenceNumRows = inp.seqRows
  /\ sequenceNumColumns = inp.seqCols
  /\ pc = ps
  /\ graph = CMRgraphCreateEmpty
  /\ rowEdges = << >>
  /\ columnEdges = << >>
  /\ hashVector = << >>
  /\ rowHashValues = << >>
  /\ columnHashValues = << >>
  /\ extension = 0
  /\ plastGraphicMinor = 0
  /\ pgraph = "null"
  /\ pedgeElements = [allocated |-> FALSE, elements |-> << >>]
  /\ lastCall = NoCall
  /\ query = NoQuery

NoBipartition == [called |-> FALSE, ok |-> FALSE, bipartition |-> << >>]

InitState(inp, length, ps) ==
  /\ InitDriver(inp, length, ps)
  /\ sums = NoSum
  /\ bipartite = NoBipartition
  /\ scratchStack = << >>

Init ==
  \E inp \in InputsUpTo(MaxSteps) : \E length \in 1..Len(inp.seqRows) :
    InitState(inp, length, "start")

Next ==
  \/ DriverStart
  \/ Step1Row1Column
  \/ Step2Rows1Column
  \/ Step1Row2Columns
  \/ Step1Column
  \/ Step1Row
  \/ DriverFinish

Spec == Init /\ [][Next]_vars

(***************************************************************************)
(* createWheel on every wheel matrix, rows and columns in any order.       *)
(***************************************************************************)
InitWheel ==
  \E k \in 3..MaxWheel : \E s \in PermutedWheelSupports(k) :
    InitState([support |-> s, numRows |-> k, numColumns |-> k, seqRows |-> << k >>,
               seqCols |-> << k >>], 1, "start")

NextWheel ==
  \/ DriverStart
  \/ DriverFinish

SpecWheel == InitWheel /\ [][NextWheel]_vars

(***************************************************************************)
(* findParallel on its own: the row after the first numRows rows of a      *)
(* matrix is queried against them, for accumulators that hold the hash of  *)
(* the query or another value.  Every row of the matrix has at least two   *)
(* nonzeros, as the rows of a 3-connected matrix have.                     *)
(***************************************************************************)
ParallelInputs ==
  {[support |-> s, numRows |-> MaxParallelRows + 1, numColumns |-> MaxParallelColumns,
    seqRows |-> << MaxParallelRows + 1 >>, seqCols |-> << MaxParallelColumns >>] :
     s \in [0..MaxParallelRows ->
              {cols \in SUBSET (0..(MaxParallelColumns - 1)) : Cardinality(cols) >= 2}]}

InitParallel == \E inp \in ParallelInputs : InitState(inp, 1, "parallel")

\* The hash findParallel computes for the row of the query.
QueryHash(m, row, numColumns, hVector) ==
  findParallelHash(m, RowSlice(m, row), RowSlice(m, row + 1), numColumns, hVector,
                   [hashValue |-> 0, countNonzeros |-> 0]).hashValue

CallFindParallelWith(numRows, numColumns, hVector, hashValue) ==
  \E accumulators \in [0..(numRows - 1) -> {hashValue, hashValue + 1}] :
    query' = [called |-> TRUE, row |-> numRows, numRows |-> numRows,
              numColumns |-> numColumns, rowHashValues |-> accumulators,
              result |-> findParallel(matrix, numRows, numRows, numColumns, accumulators,
                                      hVector)]

CallFindParallel ==
  /\ pc = "parallel"
  /\ \E numRows \in 1..MaxParallelRows, numColumns \in 1..MaxParallelColumns :
       CallFindParallelWith(numRows, numColumns, createHashVector(MaxParallelColumns),
                            QueryHash(matrix, numRows, numColumns,
                                      createHashVector(MaxParallelColumns)))
  /\ pc' = "called"
  /\ UNCHANGED << inputs, graph, rowEdges, columnEdges, hashVector, rowHashValues,
                  columnHashValues, extension, plastGraphicMinor, pgraph, pedgeElements,
                  lastCall, sums, bipartite, scratchStack >>

NextParallel == CallFindParallel

SpecParallel == InitParallel /\ [][NextParallel]_vars

(***************************************************************************)
(* The driver with allocations that can fail.  Every allocation and every  *)
(* call that adds a node or an edge is wrapped in CMR_CALL, which makes    *)
(* the function return the error at once.                                  *)
(***************************************************************************)
\* An allocation of lines 1197-1224 fails: CMRgraphCreateEmpty itself
\* (created = FALSE), or a later one, when *pgraph already names the graph.
AllocationFailsAtStart ==
  /\ pc = "start"
  /\ pc' = "error"
  /\ \E created \in BOOLEAN :
       /\ pgraph' = IF created THEN "graph" ELSE "null"
       /\ \E allocated \in 0..(IF created THEN Len(DriverAllocations) ELSE 0) :
            scratchStack' = RunScratch(SubSeq(DriverAllocations, 1, allocated), 1, scratchStack)
  /\ lastCall' = NoCall
  /\ UNCHANGED << inputs, graph, rowEdges, columnEdges, hashVector, rowHashValues,
                  columnHashValues, extension, plastGraphicMinor, pedgeElements, query, sums,
                  bipartite >>

\* An allocation inside a handler of the loop (lines 1226-1312) fails: the
\* driver returns from inside the loop.
AllocationFailsInLoop ==
  /\ pc = "loop"
  /\ extension < lengthSequence
  /\ pc' = "error"
  /\ lastCall' = NoCall
  /\ \E trace \in {addToGraph1RowScratch("graphic"), addToGraph1ColumnScratch, << >>} :
       \E made \in 0..Len(trace) :
         /\ made < Len(trace) => trace[made + 1].op \in {"alloc", "create"}
         /\ scratchStack' = RunScratch(SubSeq(trace, 1, made), 1, scratchStack)
  /\ UNCHANGED << inputs, graph, rowEdges, columnEdges, hashVector, rowHashValues,
                  columnHashValues, extension, plastGraphicMinor, pgraph, pedgeElements, query, sums,
                  bipartite >>

NextAlloc ==
  \/ DriverStart
  \/ Step1Row1Column
  \/ Step2Rows1Column
  \/ Step1Row2Columns
  \/ Step1Column
  \/ Step1Row
  \/ DriverFinish
  \/ AllocationFailsAtStart
  \/ AllocationFailsInLoop

SpecAlloc == Init /\ [][NextAlloc]_vars

(***************************************************************************)
(* The driver on a sequence the caller must not pass: a step that is none  *)
(* of the five cases, or a first minor that is not square.  The two tests  *)
(* are assertions (lines 1219 and 1289), which a build with NDEBUG leaves  *)
(* out.                                                                    *)
(***************************************************************************)
\* The cases of lines 1235, 1248, 1261, 1274 and 1289.
DispatchCases == {<< 1, 1 >>, << 2, 1 >>, << 1, 2 >>, << 0, 1 >>, << 1, 0 >>}

\* Lines 1228-1229: newRows and newColumns of the step at index step.
StepCase(step) ==
  << NumRowsAt(step) - NumRowsAt(step - 1), NumColumnsAt(step) - NumColumnsAt(step - 1) >>

\* Sequences made from those of the 3x3 wheel: two steps run together, the
\* first minor repeated, and the second minor alone when it has more columns
\* than rows (with more rows than columns createWheel reads rows the
\* transpose does not have).
MalformedInputs ==
  LET valid == {inp \in InputsUpTo(MaxSteps) : inp.seqRows[1] = 3}
  IN {[inp EXCEPT !.seqRows = << inp.seqRows[1], inp.seqRows[3] >>,
                  !.seqCols = << inp.seqCols[1], inp.seqCols[3] >>] :
        inp \in {x \in valid : /\ Len(x.seqRows) = 3
                               /\ << x.seqRows[3] - x.seqRows[1], x.seqCols[3] - x.seqCols[1] >>
                                    \notin DispatchCases}}
     \cup {[inp EXCEPT !.seqRows = << inp.seqRows[1], inp.seqRows[1] >>,
                       !.seqCols = << inp.seqCols[1], inp.seqCols[1] >>] :
             inp \in {x \in valid : Len(x.seqRows) <= 2}}
     \cup {[inp EXCEPT !.seqRows = << inp.seqRows[2] >>, !.seqCols = << inp.seqCols[2] >>] :
             inp \in {x \in valid : Len(x.seqRows) = 2 /\ x.seqRows[2] < x.seqCols[2]}}

InitMalformed ==
  \E inp \in MalformedInputs : InitState(inp, Len(inp.seqRows), "start")

\* An assertion of line 1219 or line 1289 fails in a build that has them:
\* the process is aborted.
AssertionFails ==
  /\ \/ pc = "start" /\ NumRowsAt(0) # NumColumnsAt(0)
     \/ pc = "loop" /\ extension < lengthSequence /\ StepCase(extension) \notin DispatchCases
  /\ pc' = "aborted"
  /\ lastCall' = NoCall
  /\ UNCHANGED << inputs, graph, rowEdges, columnEdges, hashVector, rowHashValues,
                  columnHashValues, extension, plastGraphicMinor, pgraph, pedgeElements, query,
                  sums, bipartite, scratchStack >>

\* Lines 1287-1301 in a build without assertions: a step that is none of the
\* first four cases reaches addToGraph1Row with the row after the processed
\* ones; reading the slice of a row the matrix does not have is undefined.
Step1RowUnchecked ==
  /\ pc = "loop"
  /\ extension < lengthSequence
  /\ StepCase(extension) \notin DispatchCases
  /\ IF NumRowsAt(extension - 1) >= matrix.numRows
       THEN Undefined([NoCall EXCEPT !.handler = "addToGraph1Row", !.decided = "undefined"])
       ELSE \E scratchVisited \in ScratchVisited(graph), scratchParent \in ScratchParent(graph) :
              Step1RowOn(NonzerosBelow(matrix, NumRowsAt(extension - 1),
                                       NumColumnsAt(extension - 1)),
                         scratchVisited, scratchParent)

NextMalformed ==
  \/ DriverStart
  \/ AssertionFails
  \/ Step1RowUnchecked
  \/ DriverFinish

SpecMalformed == InitMalformed /\ [][NextMalformed]_vars

(***************************************************************************)
(* The 1-sum and the 2-sum of two matrices.  Both functions are called by  *)
(* test/test_separation.cpp; a dense matrix is the sequence of its rows,   *)
(* a marker is an element (row r is -(r+1), column c is c+1).              *)
(***************************************************************************)
DenseNumRows(m) == Len(m)

DenseNumColumns(m) == IF Len(m) = 0 THEN 0 ELSE Len(m[1])

Zeros(n) == [j \in 1..n |-> 0]

Scaled(x, row) == [j \in 1..Len(row) |-> x * row[j]]

\* The sequence without its entry at the 0-based position index.
Without(seq, index) ==
  [j \in 1..(Len(seq) - 1) |-> IF j <= index THEN seq[j] ELSE seq[j + 1]]

CMRoneSumMutant(first, second) ==
  [i \in 1..(DenseNumRows(first) + DenseNumRows(second)) |->
     IF i <= DenseNumRows(first)
       THEN Zeros(DenseNumColumns(second)) \o first[i]
       ELSE second[i - DenseNumRows(first)] \o Zeros(DenseNumColumns(first))]

CMRoneSum(first, second) ==
  [i \in 1..(DenseNumRows(first) + DenseNumRows(second)) |->
     IF i <= DenseNumRows(first)
       THEN first[i] \o Zeros(DenseNumColumns(second))
       ELSE Zeros(DenseNumColumns(first)) \o second[i - DenseNumRows(first)]]

\* The marker of first is a row and the marker of second is a column.
TwoSumRowColumn(first, second, a, b) ==
  [i \in 1..(DenseNumRows(first) - 1) |->
     Without(first, a)[i] \o Zeros(DenseNumColumns(second) - 1)]
  \o [i \in 1..DenseNumRows(second) |->
        Scaled(second[i][b + 1], first[a + 1]) \o Without(second[i], b)]

\* The marker of first is a column and the marker of second is a row.
TwoSumColumnRow(first, second, a, b) ==
  [i \in 1..DenseNumRows(first) |->
     Without(first[i], a) \o Scaled(first[i][a + 1], second[b + 1])]
  \o [i \in 1..(DenseNumRows(second) - 1) |->
        Zeros(DenseNumColumns(first) - 1) \o Without(second, b)[i]]

CMRtwoSumMutant(first, second, firstMarker, secondMarker) ==
  IF CMRelementIsRow(firstMarker) /\ ~CMRelementIsRow(secondMarker)
    THEN TwoSumRowColumn(first, second, CMRelementToRowIndex(firstMarker),
                         CMRelementToColumnIndex(secondMarker))
    ELSE [i \in 1..DenseNumRows(first) |->
            Without(first[i], CMRelementToColumnIndex(firstMarker))
            \o second[CMRelementToRowIndex(secondMarker) + 1]]
         \o [i \in 1..(DenseNumRows(second) - 1) |->
               Zeros(DenseNumColumns(first) - 1)
               \o Without(second, CMRelementToRowIndex(secondMarker))[i]]

CMRtwoSum(first, second, firstMarker, secondMarker) ==
  IF CMRelementIsRow(firstMarker) /\ ~CMRelementIsRow(secondMarker)
    THEN TwoSumRowColumn(first, second, CMRelementToRowIndex(firstMarker),
                         CMRelementToColumnIndex(secondMarker))
    ELSE TwoSumColumnRow(first, second, CMRelementToColumnIndex(firstMarker),
                         CMRelementToRowIndex(secondMarker))

\* The matrices of TEST(Separation, OneSum) and TEST(Separation, TwoSum).
TestFirst ==
  << << 1, 1, 0, 0, 0 >>,
     << 1, 0, 1, -1, 1 >>,
     << 0, -1, 1, 0, -1 >>,
     << 0, 0, -1, 1, 0 >>,
     << 0, 1, 1, 0, 1 >> >>

TestSecond ==
  << << 1, -1, 1, 0, 0 >>,
     << 1, 1, 1, 1, -1 >>,
     << 0, 0, -1, 0, 1 >>,
     << 1, 0, 0, -1, 0 >>,
     << 0, 1, 0, 0, 1 >> >>

TestOneSumCheck ==
  << << 1, 1, 0, 0, 0, 0, 0, 0, 0, 0 >>,
     << 1, 0, 1, -1, 1, 0, 0, 0, 0, 0 >>,
     << 0, -1, 1, 0, -1, 0, 0, 0, 0, 0 >>,
     << 0, 0, -1, 1, 0, 0, 0, 0, 0, 0 >>,
     << 0, 1, 1, 0, 1, 0, 0, 0, 0, 0 >>,
     << 0, 0, 0, 0, 0, 1, -1, 1, 0, 0 >>,
     << 0, 0, 0, 0, 0, 1, 1, 1, 1, -1 >>,
     << 0, 0, 0, 0, 0, 0, 0, -1, 0, 1 >>,
     << 0, 0, 0, 0, 0, 1, 0, 0, -1, 0 >>,
     << 0, 0, 0, 0, 0, 0, 1, 0, 0, 1 >> >>

\* twosum of first and second at row 1 and column 2.
TestTwoSumRowColumnCheck ==
  << << 1, 1, 0, 0, 0, 0, 0, 0, 0 >>,
     << 0, -1, 1, 0, -1, 0, 0, 0, 0 >>,
     << 0, 0, -1, 1, 0, 0, 0, 0, 0 >>,
     << 0, 1, 1, 0, 1, 0, 0, 0, 0 >>,
     << 1, 0, 1, -1, 1, 1, -1, 0, 0 >>,
     << 1, 0, 1, -1, 1, 1, 1, 1, -1 >>,
     << -1, 0, -1, 1, -1, 0, 0, 0, 1 >>,
     << 0, 0, 0, 0, 0, 1, 0, -1, 0 >>,
     << 0, 0, 0, 0, 0, 0, 1, 0, 1 >> >>

\* twosum of first and second at column 4 and row 0.
TestTwoSumColumnRowCheck ==
  << << 1, 1, 0, 0, 0, 0, 0, 0, 0 >>,
     << 1, 0, 1, -1, 1, -1, 1, 0, 0 >>,
     << 0, -1, 1, 0, -1, 1, -1, 0, 0 >>,
     << 0, 0, -1, 1, 0, 0, 0, 0, 0 >>,
     << 0, 1, 1, 0, 1, -1, 1, 0, 0 >>,
     << 0, 0, 0, 0, 1, 1, 1, 1, -1 >>,
     << 0, 0, 0, 0, 0, 0, -1, 0, 1 >>,
     << 0, 0, 0, 0, 1, 0, 0, -1, 0 >>,
     << 0, 0, 0, 0, 0, 1, 0, 0, 1 >> >>

\* Every matrix of at most MaxSumLines rows and columns with entries -1, 0, 1.
SmallMatrices ==
  UNION {[1..m -> [1..n -> {-1, 0, 1}]] : m \in 1..MaxSumLines, n \in 1..MaxSumLines}

SumInputs ==
  {<< TestFirst, TestSecond >>} \cup (SmallMatrices \X SmallMatrices)

InitSum ==
  /\ InitDriver([support |-> (0 :> {0, 1} @@ 1 :> {0, 2} @@ 2 :> {1, 2}), numRows |-> 3, numColumns |-> 3,
                 seqRows |-> << 3 >>, seqCols |-> << 3 >>], 1, "sum")
  /\ \E pair \in SumInputs : sums = [NoSum EXCEPT !.first = pair[1], !.second = pair[2]]
  /\ bipartite = NoBipartition
  /\ scratchStack = << >>

SumUnchanged ==
  UNCHANGED << inputs, graph, rowEdges, columnEdges, hashVector, rowHashValues,
               columnHashValues, extension, plastGraphicMinor, pgraph, pedgeElements,
               lastCall, query, bipartite, scratchStack >>

CallOneSum ==
  /\ pc = "sum"
  /\ pc' = "summed"
  /\ sums' = [sums EXCEPT !.called = "oneSum", !.result = CMRoneSum(sums.first, sums.second)]
  /\ SumUnchanged

CallTwoSumRowColumn ==
  /\ pc = "sum"
  /\ pc' = "summed"
  /\ \E a \in 0..(DenseNumRows(sums.first) - 1) :
       \E b \in 0..(DenseNumColumns(sums.second) - 1) :
         sums' = [sums EXCEPT !.called = "twoSum",
                              !.firstMarker = CMRrowToElement(a),
                              !.secondMarker = CMRcolumnToElement(b),
                              !.result = CMRtwoSum(sums.first, sums.second,
                                                   CMRrowToElement(a), CMRcolumnToElement(b))]
  /\ SumUnchanged

CallTwoSumColumnRow ==
  /\ pc = "sum"
  /\ pc' = "summed"
  /\ \E a \in 0..(DenseNumColumns(sums.first) - 1) :
       \E b \in 0..(DenseNumRows(sums.second) - 1) :
         sums' = [sums EXCEPT !.called = "twoSum",
                              !.firstMarker = CMRcolumnToElement(a),
                              !.secondMarker = CMRrowToElement(b),
                              !.result = CMRtwoSum(sums.first, sums.second,
                                                   CMRcolumnToElement(a), CMRrowToElement(b))]
  /\ SumUnchanged

NextSum ==
  \/ CallOneSum
  \/ CallTwoSumRowColumn
  \/ CallTwoSumColumnRow

SpecSum == InitSum /\ [][NextSum]_vars

(***************************************************************************)
(* findBipartition on its own, on every graph of at most MaxAuxNodes nodes *)
(* and MaxAuxEdges edges, self-loops and parallel edges included, as the   *)
(* auxiliary graph of addToGraph1Row can have them.                        *)
(***************************************************************************)
AuxGraphs ==
  UNION {{[numNodes |-> n, ends |-> ends, free |-> << >>] :
            ends \in UNION {[1..k -> {p \in (0..(n - 1)) \X (0..(n - 1)) : p[1] <= p[2]}] :
                              k \in 0..MaxAuxEdges}} :
           n \in 1..MaxAuxNodes}

InitBipartite ==
  /\ \E aux \in AuxGraphs : graph = aux
  /\ matrix = ChrMat((0 :> {0, 1} @@ 1 :> {0, 2} @@ 2 :> {1, 2}), 3, 3)
  /\ transpose = matrix
  /\ lengthSequence = 1
  /\ sequenceNumRows = << 3 >>
  /\ sequenceNumColumns = << 3 >>
  /\ pc = "bipartite"
  /\ rowEdges = << >>
  /\ columnEdges = << >>
  /\ hashVector = << >>
  /\ rowHashValues = << >>
  /\ columnHashValues = << >>
  /\ extension = 0
  /\ plastGraphicMinor = 0
  /\ pgraph = "null"
  /\ pedgeElements = [allocated |-> FALSE, elements |-> << >>]
  /\ lastCall = NoCall
  /\ query = NoQuery
  /\ sums = NoSum
  /\ bipartite = NoBipartition
  /\ scratchStack = << >>

\* Lines 504-508: the call of findBipartition on the auxiliary graph.
CallFindBipartition ==
  /\ pc = "bipartite"
  /\ pc' = "colored"
  /\ bipartite' = [called |-> TRUE, ok |-> findBipartition(graph).ok,
                   bipartition |-> findBipartition(graph).bipartition]
  /\ UNCHANGED << inputs, graph, rowEdges, columnEdges, hashVector, rowHashValues,
                  columnHashValues, extension, plastGraphicMinor, pgraph, pedgeElements,
                  lastCall, query, sums, scratchStack >>

NextBipartite == CallFindBipartition

SpecBipartite == InitBipartite /\ [][NextBipartite]_vars

(***************************************************************************)
(* The claims.                                                             *)
(***************************************************************************)
NumRowsDone == NumRowsAt(plastGraphicMinor)

NumColumnsDone == NumColumnsAt(plastGraphicMinor)

TreeHolds == InvTree(graph, rowEdges, NumRowsDone)

CotreeHolds == InvCotree(graph, rowEdges, columnEdges, NumRowsDone, NumColumnsDone)

CyclesHold == InvCycles(graph, matrix, rowEdges, columnEdges, NumRowsDone, NumColumnsDone)

\* C1: after the wheel is built and after every extension step reported
\* graphic (the driver is back in its loop), the rows with a nonzero in a
\* processed column are exactly the rows whose row-edge lies on the tree path
\* between the ends of the column's edge (I3).
C1_CycleCorrespondence == pc = "loop" => CyclesHold

\* C2: after the wheel is built and after every extension step reported
\* graphic, the row-edges of the processed rows are pairwise distinct and form
\* a spanning tree (I1), and the column-edges of the processed columns are
\* pairwise distinct and are exactly the other edges of the graph (I2).
C2_TreeAndCotree == pc = "loop" => (TreeHolds /\ CotreeHolds)

\* C3: a step that is reported non-graphic (the driver leaves its loop by
\* break) leaves the graph, rowEdges and columnEdges exactly as they were
\* before the handler was called.
C3_FailureLeavesState ==
  [][(pc = "loop" /\ pc' = "exit")
       => (graph' = graph /\ rowEdges' = rowEdges /\ columnEdges' = columnEdges)]_vars

\* A (1,0) step was rejected at its last test, the bipartition.
C3_Witness ==
  pc = "exit" /\ lastCall.handler = "addToGraph1Row" /\ lastCall.decided = "notBipartite"

\* The rows are the edges of a rooted tree: row r joins node r+1 to node
\* p[r]+1, and every node reaches the root 0.
RECURSIVE ReachesRoot(_, _, _)
ReachesRoot(p, r, fuel) ==
  IF r < 0 THEN TRUE ELSE IF fuel = 0 THEN FALSE ELSE ReachesRoot(p, p[r], fuel - 1)

PathDegree(p, rows, v) ==
  Cardinality({r \in rows : r + 1 = v}) + Cardinality({r \in rows : p[r] + 1 = v})

\* The tree edges rows form one path.
IsTreePath(p, rows, numRows) ==
  /\ \A v \in 0..numRows : PathDegree(p, rows, v) <= 2
  /\ Cardinality({v \in 0..numRows : PathDegree(p, rows, v) = 1}) = 2

\* Some graph realizes the first numRows rows and numColumns columns of m:
\* there is a tree of row-edges in which every column's rows form a path, the
\* column's edge joining the ends of that path.
Realizable(m, numRows, numColumns) ==
  \E p \in [0..(numRows - 1) -> (0 - 1)..(numRows - 1)] :
    /\ \A r \in 0..(numRows - 1) : ReachesRoot(p, r, numRows)
    /\ \A c \in 0..(numColumns - 1) :
         IsTreePath(p, {r \in 0..(numRows - 1) : c \in RowSupport(m, r)}, numRows)

\* C4: a step is reported non-graphic only if no graph realizes the enlarged
\* minor.  The steps looked at are those that start from a graph for which
\* I1, I2 and I3 hold (a rejection leaves the graph as it was) and in which
\* findTreeParents found its arrays zeroed.
C4_NoFalseRejection ==
  (pc = "exit" /\ lastCall.zeroed /\ TreeHolds /\ CotreeHolds /\ CyclesHold)
    => ~Realizable(matrix, NumRowsAt(extension), NumColumnsAt(extension))

\* C5: for a wheel matrix of size k, createWheel gives a graph with k+1 nodes
\* and 2k edges, assigns an edge to each of the k rows and k columns, and
\* establishes I1, I2 and I3.
C5_WheelBuilder ==
  (pc = "loop" /\ lastCall.handler = "createWheel")
    => /\ CMRgraphNumNodes(graph) = NumRowsAt(0) + 1
       /\ Cardinality(CMRgraphEdges(graph)) = 2 * NumRowsAt(0)
       /\ \A line \in 0..(NumRowsAt(0) - 1) : rowEdges[line] # Unset /\ columnEdges[line] # Unset
       /\ TreeHolds
       /\ CotreeHolds
       /\ CyclesHold

\* C6: a handler is only called for the step after the last graphic one, in
\* increasing order; a graphic step becomes the last graphic minor and a
\* non-graphic one ends the loop with the index unchanged; after that no
\* handler runs and the graph and the hash accumulators stay as they are; the
\* index returned is L-1 exactly if the loop ran to its end.
C6_StopAtFirstFailure ==
  [][/\ (lastCall'.handler \notin {"none", "createWheel"} /\ pc' # "undefined")
          => /\ pc = "loop"
             /\ extension = plastGraphicMinor + 1
             /\ extension < lengthSequence
             /\ IF lastCall'.isGraphic
                  THEN plastGraphicMinor' = extension /\ pc' = "loop"
                  ELSE plastGraphicMinor' = plastGraphicMinor /\ pc' = "exit"
     /\ pc = "exit"
          => /\ lastCall'.handler = "none"
             /\ graph' = graph
             /\ rowHashValues' = rowHashValues
             /\ columnHashValues' = columnHashValues
     /\ pc' = "done"
          => /\ plastGraphicMinor' = plastGraphicMinor
             /\ pc = "loop" => plastGraphicMinor = lengthSequence - 1
             /\ pc = "exit" => plastGraphicMinor < lengthSequence - 1]_vars

\* The second step of a sequence of three minors was rejected after the first
\* was accepted, and the driver returned.
C6_Witness == pc = "done" /\ lengthSequence = 3 /\ plastGraphicMinor = 1

\* C7: when the driver returns, the graph is handed out exactly if the last
\* graphic minor is L-1, and the edge-to-element array exactly if the graph is.
C7_ResultShape ==
  pc = "done"
    => /\ (pgraph = "graph") <=> (plastGraphicMinor = lengthSequence - 1)
       /\ pedgeElements.allocated <=> (pgraph = "graph")

\* A sequence of three minors was accepted and its graph returned.
C7_Witness == pc = "done" /\ lengthSequence = 3 /\ pgraph = "graph"

\* C8: on full success the returned array maps the edge of every processed
\* row and column to that row or column, and every edge of the graph to one
\* of them.
C8_EdgeMapInverse ==
  (pc = "done" /\ pedgeElements.allocated)
    => /\ \A r \in 0..(NumRowsDone - 1) :
            pedgeElements.elements[rowEdges[r] + 1] = CMRrowToElement(r)
       /\ \A c \in 0..(NumColumnsDone - 1) :
            pedgeElements.elements[columnEdges[c] + 1] = CMRcolumnToElement(c)
       /\ \A e \in CMRgraphEdges(graph) :
            \/ \E r \in 0..(NumRowsDone - 1) :
                 pedgeElements.elements[e + 1] = CMRrowToElement(r)
            \/ \E c \in 0..(NumColumnsDone - 1) :
                 pedgeElements.elements[e + 1] = CMRcolumnToElement(c)

\* The columns below numColumns in which a row of m is nonzero.
RestrictedSupport(m, row, numColumns) == {c \in RowSupport(m, row) : c < numColumns}

\* The query q of findParallel on matrix m with the accumulators acc: if the
\* queried row has at least two nonzeros, every compared row with the same
\* restricted support has the hash of the query, and a match is returned.
QuerySound(q, m, acc, hVector) ==
  Cardinality(RestrictedSupport(m, q.row, q.numColumns)) >= 2
    => \A row2 \in 0..(q.numRows - 1) :
         RestrictedSupport(m, row2, q.numColumns) = RestrictedSupport(m, q.row, q.numColumns)
           => /\ acc[row2] = QueryHash(m, q.row, q.numColumns, hVector)
              /\ q.result # 0

\* C9: at every query of findParallel by the driver, for a new row on the
\* matrix or a new column on the transpose, the accumulators the query reads
\* agree with the hash of the query on every true match.
C9_HashFilterSound ==
  [][\A i \in 1..Len(lastCall'.queries) :
       IF lastCall'.queries[i].onTranspose
         THEN QuerySound(lastCall'.queries[i], transpose, columnHashValues, hashVector)
         ELSE QuerySound(lastCall'.queries[i], matrix, rowHashValues, hashVector)]_vars

\* A query with at least two nonzeros found the row it is parallel to.
C9_Witness ==
  \E i \in 1..Len(lastCall.queries) :
    /\ lastCall.queries[i].result < 0
    /\ ~lastCall.queries[i].onTranspose
    /\ Cardinality(RestrictedSupport(matrix, lastCall.queries[i].row,
                                     lastCall.queries[i].numColumns)) >= 2

\* C10: when findParallel, queried with a row of at least two nonzeros below
\* numColumns, returns the element of a row, that row has the same nonzero
\* columns below numColumns as the queried row, whatever the accumulators
\* hold.
C10_ParallelExact ==
  (/\ query.called
   /\ CMRelementIsRow(query.result)
   /\ Cardinality(RestrictedSupport(matrix, query.row, query.numColumns)) >= 2)
    => RestrictedSupport(matrix, CMRelementToRowIndex(query.result), query.numColumns)
         = RestrictedSupport(matrix, query.row, query.numColumns)

\* The input of scenario B: the 3x3 wheel with rows {c1,c2}, {c1,c3}, {c2,c3}
\* and a fourth row with nonzeros in all three columns, as a sequence of two
\* minors.
ScenarioB ==
  /\ matrix = ChrMat((0 :> {0, 1} @@ 1 :> {0, 2} @@ 2 :> {1, 2} @@ 3 :> {0, 1, 2}), 4, 3)
  /\ lengthSequence = 2
  /\ sequenceNumRows = << 3, 4 >>
  /\ sequenceNumColumns = << 3, 3 >>

\* C11: in scenario B the (1,0) handler reports the step non-graphic, and the
\* driver returns lastGraphicMinor = 0 and no graph.
C11_ScenarioBOutcome ==
  ScenarioB
    => /\ lastCall.handler = "addToGraph1Row" => (~lastCall.isGraphic /\ pc = "exit")
       /\ pc = "done" => (plastGraphicMinor = 0 /\ pgraph = "null")

\* The two end nodes of an edge.
EdgeEnds(g, e) == {CMRgraphEdgeU(g, e), CMRgraphEdgeV(g, e)}

\* The end of edge e that is not the node common.
OtherEnd(g, e, common) == CHOOSE v \in EdgeEnds(g, e) : v # common

\* Every edge of g outside changed is an edge of gNew with the same ends.
EdgesKept(g, gNew, changed) ==
  \A x \in CMRgraphEdges(g) \ changed :
    x \in CMRgraphEdges(gNew) /\ EdgeEnds(gNew, x) = EdgeEnds(g, x)

\* Graph gNew and the new entries come from g by the (1,1) step on the edges
\* e (of the row's parallel element) and f (of the column's): one node S is
\* added, e joins its non-shared end to S, the new row-edge joins S to the
\* shared end and the new column-edge joins S to the non-shared end of f.
OneRowOneColumnEffect(g, gNew, newRowEdge, newColumnEdge, e, f) ==
  \E common \in EdgeEnds(g, e) \cap EdgeEnds(g, f) :
    /\ gNew.numNodes = g.numNodes + 1
    /\ Cardinality(CMRgraphEdges(gNew)) = Cardinality(CMRgraphEdges(g)) + 2
    /\ {newRowEdge, newColumnEdge} \cap CMRgraphEdges(g) = {}
    /\ newRowEdge # newColumnEdge
    /\ EdgeEnds(gNew, e) = {OtherEnd(g, e, common), g.numNodes}
    /\ EdgeEnds(gNew, newRowEdge) = {g.numNodes, common}
    /\ EdgeEnds(gNew, newColumnEdge) = {g.numNodes, OtherEnd(g, f, common)}
    /\ EdgesKept(g, gNew, {e})

\* C12: the (1,1) handler, given the edges its two parallel elements resolve
\* to, reports success exactly if the two edges share an end node, and on
\* success adds one node and two edges as OneRowOneColumnEffect says, the new
\* edges stored in rowEdges[baseNumRows] and columnEdges[baseNumColumns].
C12_OneRowOneColumn ==
  [][(lastCall'.handler = "addToGraph1Row1Column" /\ pc' # "undefined")
       => /\ lastCall'.isGraphic
               <=> (EdgeEnds(graph, ElementEdge(rowEdges, columnEdges, lastCall'.queries[1].result))
                      \cap EdgeEnds(graph, ElementEdge(rowEdges, columnEdges,
                                      CMRelementTranspose(lastCall'.queries[2].result))) # {})
          /\ lastCall'.isGraphic
               => OneRowOneColumnEffect(graph, graph',
                    rowEdges'[NumRowsAt(extension - 1)], columnEdges'[NumColumnsAt(extension - 1)],
                    ElementEdge(rowEdges, columnEdges, lastCall'.queries[1].result),
                    ElementEdge(rowEdges, columnEdges,
                                CMRelementTranspose(lastCall'.queries[2].result)))]_vars

\* Scenario C: a (1,1) step succeeded whose new row is parallel to a column
\* and whose new column is parallel to a row.
C12_Witness ==
  /\ lastCall.handler = "addToGraph1Row1Column"
  /\ lastCall.isGraphic
  /\ ~CMRelementIsRow(lastCall.queries[1].result)
  /\ CMRelementIsRow(CMRelementTranspose(lastCall.queries[2].result))

\* C13: when an allocation fails the entry point returns at once, runs no
\* further step, and the graph built so far is freed instead of staying
\* reachable through the output pointer.
C13_ExhaustionFreesGraph ==
  pc = "error" => pgraph = "null"

\* What a caller sees of the result r of addToGraph1Row.
Observable(r) ==
  [isGraphic |-> r.isGraphic, graph |-> r.graph, rowEdges |-> r.rowEdges,
   columnEdges |-> r.columnEdges]

\* The results addToGraph1Row can return for the new row nonzeroColumns in
\* the current state, over the contents its buffers can have on entry.
RowStepResults(nonzeroColumns) ==
  {r \in {addToGraph1Row(graph, rowEdges, columnEdges, NumRowsAt(extension - 1),
                         NumColumnsAt(extension - 1), nonzeroColumns, scratchVisited,
                         scratchParent) :
            scratchVisited \in ScratchVisited(graph), scratchParent \in ScratchParent(graph)} :
     r.decided # "undefined"}

\* C14: two runs of the driver on the same input give the same
\* lastGraphicMinor and graph.  Two runs that agree up to a (1,0) step get
\* the same result from the handler, and the hash weights are those of the
\* fixed recurrence.
C14_Determinism ==
  /\ (/\ pc = "loop"
      /\ InLoop(1, 0)
      /\ \A i \in 1..Len(NonzerosBelow(matrix, NumRowsAt(extension - 1),
                                       NumColumnsAt(extension - 1))) :
           columnEdges[NonzerosBelow(matrix, NumRowsAt(extension - 1),
                                     NumColumnsAt(extension - 1))[i]] # Unset)
       => Cardinality({Observable(r) :
                         r \in RowStepResults(NonzerosBelow(matrix, NumRowsAt(extension - 1),
                                                            NumColumnsAt(extension - 1)))}) <= 1
  /\ pc # "start"
       => /\ hashVector[1] = 1
          /\ \A e \in 1..(Len(hashVector) - 1) :
               hashVector[e + 1] = projectSignedHash(3 * hashVector[e])

\* The entry of a dense matrix at 0-based row i and column j.
Entry(m, i, j) == m[i + 1][j + 1]

\* C15: the 1-sum of an m1 x n1 matrix A and an m2 x n2 matrix B has
\* m1 + m2 rows and n1 + n2 columns, A as its top-left block, B as its
\* bottom-right block and zeros elsewhere; on the matrices of
\* TEST(Separation, OneSum) it is the matrix the test expects.
C15_OneSum ==
  sums.called = "oneSum" =>
    LET m1 == DenseNumRows(sums.first)
        n1 == DenseNumColumns(sums.first)
        m2 == DenseNumRows(sums.second)
        n2 == DenseNumColumns(sums.second)
    IN /\ DenseNumRows(sums.result) = m1 + m2
       /\ \A i \in 0..(m1 + m2 - 1) : Len(sums.result[i + 1]) = n1 + n2
       /\ \A i \in 0..(m1 + m2 - 1) : \A j \in 0..(n1 + n2 - 1) :
            Entry(sums.result, i, j) =
              IF i < m1 /\ j < n1 THEN Entry(sums.first, i, j)
              ELSE IF i >= m1 /\ j >= n1 THEN Entry(sums.second, i - m1, j - n1)
              ELSE 0
       /\ (sums.first = TestFirst /\ sums.second = TestSecond)
            => sums.result = TestOneSumCheck

C15_Witness ==
  /\ sums.called = "oneSum"
  /\ sums.first = TestFirst
  /\ sums.second = TestSecond

\* C16: the 2-sum has m1 + m2 - 1 rows and n1 + n2 - 1 columns.  With a row
\* marker a of A and a column marker b of B, the top rows are the rows of A
\* other than a padded with zeros, and bottom row i is B[i][b] times row a of
\* A followed by row i of B without column b.  With a column marker a of A
\* and a row marker b of B, top row i is row i of A without column a followed
\* by A[i][a] times row b of B, and the bottom rows are the rows of B other
\* than b preceded by zeros.  Both calls of TEST(Separation, TwoSum) give the
\* matrix the test expects.
C16_TwoSum ==
  sums.called = "twoSum" =>
    LET m1 == DenseNumRows(sums.first)
        n1 == DenseNumColumns(sums.first)
        m2 == DenseNumRows(sums.second)
        n2 == DenseNumColumns(sums.second)
        skip(k, marker) == IF k < marker THEN k ELSE k + 1
    IN /\ DenseNumRows(sums.result) = m1 + m2 - 1
       /\ \A i \in 0..(m1 + m2 - 2) : Len(sums.result[i + 1]) = n1 + n2 - 1
       /\ CMRelementIsRow(sums.firstMarker) =>
            LET a == CMRelementToRowIndex(sums.firstMarker)
                b == CMRelementToColumnIndex(sums.secondMarker)
            IN \A i \in 0..(m1 + m2 - 2) : \A j \in 0..(n1 + n2 - 2) :
                 Entry(sums.result, i, j) =
                   IF i < m1 - 1
                     THEN IF j < n1 THEN Entry(sums.first, skip(i, a), j) ELSE 0
                     ELSE IF j < n1
                            THEN Entry(sums.second, i - (m1 - 1), b) * Entry(sums.first, a, j)
                            ELSE Entry(sums.second, i - (m1 - 1), skip(j - n1, b))
       /\ ~CMRelementIsRow(sums.firstMarker) =>
            LET a == CMRelementToColumnIndex(sums.firstMarker)
                b == CMRelementToRowIndex(sums.secondMarker)
            IN \A i \in 0..(m1 + m2 - 2) : \A j \in 0..(n1 + n2 - 2) :
                 Entry(sums.result, i, j) =
                   IF i < m1
                     THEN IF j < n1 - 1
                            THEN Entry(sums.first, i, skip(j, a))
                            ELSE Entry(sums.first, i, a) * Entry(sums.second, b, j - (n1 - 1))
                     ELSE IF j < n1 - 1 THEN 0
                          ELSE Entry(sums.second, skip(i - m1, b), j - (n1 - 1))
       /\ (/\ sums.first = TestFirst
           /\ sums.second = TestSecond
           /\ sums.firstMarker = CMRrowToElement(1)
           /\ sums.secondMarker = CMRcolumnToElement(2))
            => sums.result = TestTwoSumRowColumnCheck
       /\ (/\ sums.first = TestFirst
           /\ sums.second = TestSecond
           /\ sums.firstMarker = CMRcolumnToElement(4)
           /\ sums.secondMarker = CMRrowToElement(0))
            => sums.result = TestTwoSumColumnRowCheck

C16_Witness ==
  /\ sums.called = "twoSum"
  /\ sums.first = TestFirst
  /\ sums.second = TestSecond
  /\ sums.firstMarker = CMRcolumnToElement(4)
  /\ sums.secondMarker = CMRrowToElement(0)
  /\ sums.result = TestTwoSumColumnRowCheck

\* The edges of E that do not end in node v.
EdgesOff(g, E, v) == {e \in E : v \notin EdgeEnds(g, e)}

\* The connected components of the nodes N along the edges E.
ComponentsOf(g, N, E) == {ReachVia(g, E, {u}) : u \in N}

\* Removing v leaves more connected components along the edges E.
IsArticulationPoint(g, E, v) ==
  Cardinality(ComponentsOf(g, CMRgraphNodes(g) \ {v}, EdgesOff(g, E, v)))
    > Cardinality(ComponentsOf(g, CMRgraphNodes(g), E))

\* v lies on the path of the tree T between the ends of edge e.
OnTreePath(g, T, e, v) ==
  \/ v \in EdgeEnds(g, e)
  \/ CMRgraphEdgeV(g, e) \notin ReachVia(g, EdgesOff(g, T, v), {CMRgraphEdgeU(g, e)})

\* The articulation points of g without the edges ones that lie on the tree
\* path of every edge of ones.
SplitCandidates(g, T, ones) ==
  {v \in CMRgraphNodes(g) :
     /\ IsArticulationPoint(g, CMRgraphEdges(g) \ ones, v)
     /\ \A e \in ones : OnTreePath(g, T, e, v)}

\* The components of g without the node split and the edges ones can be
\* 2-colored so that every edge of ones off split joins the two colors.
AuxiliaryBipartite(g, ones, split) ==
  \E side \in [CMRgraphNodes(g) \ {split} -> {0, 1}] :
    \A e \in EdgesOff(g, CMRgraphEdges(g), split) :
      (side[CMRgraphEdgeU(g, e)] # side[CMRgraphEdgeV(g, e)]) <=> (e \in ones)

OneRowDecision(g, T, ones) ==
  /\ \E v \in CMRgraphNodes(g) : IsArticulationPoint(g, CMRgraphEdges(g) \ ones, v)
  /\ Cardinality(SplitCandidates(g, T, ones)) = 1
  /\ \A split \in SplitCandidates(g, T, ones) : AuxiliaryBipartite(g, ones, split)

\* The column-edges of the nonzero processed columns of the new row.
OneEdges ==
  LET nonzeroColumns == NonzerosBelow(matrix, NumRowsAt(extension - 1),
                                      NumColumnsAt(extension - 1))
  IN {columnEdges[nonzeroColumns[i]] : i \in 1..Len(nonzeroColumns)}

\* The decision of the (1,0) steps whose buffers nodesVisited and nodesParent
\* start zeroed.
OneRowDecisionZeroedScratch ==
  [][(/\ lastCall'.handler = "addToGraph1Row"
      /\ lastCall'.zeroed
      /\ pc' # "undefined")
       => (lastCall'.isGraphic
             <=> OneRowDecision(graph, LineEdges(rowEdges, NumRowsAt(extension - 1)),
                                OneEdges))]_vars

\* C17: a (1,0) step succeeds exactly if the graph without the 1-edges has an
\* articulation point, exactly one articulation point lies on the tree path
\* of every 1-edge, and the auxiliary graph of the components around that
\* node is bipartite.
C17_OneRowDecision ==
  [][(/\ lastCall'.handler = "addToGraph1Row"
      /\ pc' # "undefined")
       => (lastCall'.isGraphic
             <=> OneRowDecision(graph, LineEdges(rowEdges, NumRowsAt(extension - 1)),
                                OneEdges))]_vars

\* The (1,0) handler has run on the new row of scenario B and reached a
\* decision.
ScenarioBDecided ==
  /\ ScenarioB
  /\ lastCall.handler = "addToGraph1Row"
  /\ pc # "undefined"

\* The node that every row-edge of the 3x3 wheel ends in.
IsHub(v) == \A r \in 0..2 : v \in EdgeEnds(graph, rowEdges[r])

TouchedRowEdges ==
  {rowEdges[r] : r \in {x \in 0..(NumRowsAt(extension - 1) - 1) :
                          NumColumnsAt(extension - 1) \in RowSupport(matrix, x)}}

\* The number of edges of T that end in v.
DegreeIn(g, T, v) == Cardinality({e \in T : v \in EdgeEnds(g, e)})

LeavesOf(g, T) == {v \in CMRgraphNodes(g) : DegreeIn(g, T, v) = 1}

\* T is not empty and its edges form one simple path.
IsSimplePath(g, T) ==
  /\ T # {}
  /\ \A v \in CMRgraphNodes(g) : DegreeIn(g, T, v) <= 2
  /\ \A e, f \in T : CMRgraphEdgeU(g, f) \in ReachVia(g, T, {CMRgraphEdgeU(g, e)})

\* The only change from g to gNew is the new edge between the two nodes ends.
OneColumnEffect(g, gNew, newColumnEdge, ends) ==
  /\ gNew.numNodes = g.numNodes
  /\ CMRgraphEdges(gNew) = CMRgraphEdges(g) \cup {newColumnEdge}
  /\ newColumnEdge \notin CMRgraphEdges(g)
  /\ Cardinality(ends) = 2
  /\ EdgeEnds(gNew, newColumnEdge) = ends
  /\ EdgesKept(g, gNew, {})

\* C19: a (0,1) step succeeds exactly if two nodes have degree 1 in the
\* touched row-edges, which is the case exactly if these form one simple
\* path; on success the only change is the new column-edge joining the two
\* nodes of degree 1, on failure nothing changes.
C19_OneColumn ==
  [][lastCall'.handler = "addToGraph1Column"
       => /\ lastCall'.isGraphic <=> Cardinality(LeavesOf(graph, TouchedRowEdges)) = 2
          /\ lastCall'.isGraphic <=> IsSimplePath(graph, TouchedRowEdges)
          /\ rowEdges' = rowEdges
          /\ \A c \in DOMAIN columnEdges :
               c # NumColumnsAt(extension - 1) => columnEdges'[c] = columnEdges[c]
          /\ IF lastCall'.isGraphic
               THEN OneColumnEffect(graph, graph', columnEdges'[NumColumnsAt(extension - 1)],
                                    LeavesOf(graph, TouchedRowEdges))
               ELSE graph' = graph /\ columnEdges' = columnEdges]_vars

C19_Witness ==
  /\ lastCall.handler = "addToGraph1Column"
  /\ lastCall.isGraphic
  /\ plastGraphicMinor >= 1
  /\ EdgeEnds(graph, columnEdges[NumColumnsAt(plastGraphicMinor) - 1])
       = LeavesOf(graph, {rowEdges[r] : r \in {x \in 0..(NumRowsAt(plastGraphicMinor) - 1) :
                                    NumColumnsAt(plastGraphicMinor) - 1 \in RowSupport(matrix, x)}})

\* The change of a successful (2,1) step from g to gNew: e and f are the
\* edges the two new rows are parallel to, S1 and S2 the two new nodes.
TwoRowsOneColumnEffect(g, gNew, newRow1Edge, newRow2Edge, newColumnEdge, e, f) ==
  \E common \in EdgeEnds(g, e) \cap EdgeEnds(g, f) :
    \E S1, S2 \in CMRgraphNodes(gNew) \ CMRgraphNodes(g) :
      /\ S1 # S2
      /\ gNew.numNodes = g.numNodes + 2
      /\ Cardinality(CMRgraphEdges(gNew)) = Cardinality(CMRgraphEdges(g)) + 3
      /\ {newRow1Edge, newRow2Edge, newColumnEdge} \cap CMRgraphEdges(g) = {}
      /\ Cardinality({newRow1Edge, newRow2Edge, newColumnEdge}) = 3
      /\ EdgeEnds(gNew, e) = {OtherEnd(g, e, common), S1}
      /\ EdgeEnds(gNew, f) = {OtherEnd(g, f, common), S2}
      /\ EdgeEnds(gNew, newRow1Edge) = {S1, common}
      /\ EdgeEnds(gNew, newRow2Edge) = {S2, common}
      /\ EdgeEnds(gNew, newColumnEdge) = {S1, S2}
      /\ EdgesKept(g, gNew, {e, f})

\* C20: the (2,1) handler, given the edges the parallel elements of its two
\* new rows resolve to, reports success exactly if the two edges share an end
\* node; on success two nodes and three edges are added as
\* TwoRowsOneColumnEffect says, the new edges stored in rowEdges[baseNumRows],
\* rowEdges[baseNumRows + 1] and columnEdges[baseNumColumns].
C20_TwoRowsOneColumn ==
  [][(lastCall'.handler = "addToGraph2Rows1Column" /\ pc' # "undefined")
       => /\ lastCall'.isGraphic
               <=> (EdgeEnds(graph, ElementEdge(rowEdges, columnEdges, lastCall'.queries[1].result))
                      \cap EdgeEnds(graph, ElementEdge(rowEdges, columnEdges,
                                                      lastCall'.queries[2].result)) # {})
          /\ lastCall'.isGraphic
               => TwoRowsOneColumnEffect(graph, graph',
                    rowEdges'[NumRowsAt(extension - 1)], rowEdges'[NumRowsAt(extension - 1) + 1],
                    columnEdges'[NumColumnsAt(extension - 1)],
                    ElementEdge(rowEdges, columnEdges, lastCall'.queries[1].result),
                    ElementEdge(rowEdges, columnEdges, lastCall'.queries[2].result))
          /\ ~lastCall'.isGraphic
               => graph' = graph /\ rowEdges' = rowEdges /\ columnEdges' = columnEdges]_vars

C20_Witness ==
  /\ lastCall.handler = "addToGraph2Rows1Column"
  /\ lastCall.isGraphic
  /\ plastGraphicMinor >= 1
  /\ graph.numNodes >= 6
  /\ EdgeEnds(graph, columnEdges[NumColumnsAt(plastGraphicMinor) - 1])
       = {graph.numNodes - 2, graph.numNodes - 1}

\* The change of a successful (1,2) step from g to gNew: e and f are the
\* edges the two new columns are parallel to, the new node is N.
OneRowTwoColumnsEffect(g, gNew, newRowEdge, newColumn1Edge, newColumn2Edge, e, f) ==
  \E common \in EdgeEnds(g, e) \cap EdgeEnds(g, f) :
    \E N \in CMRgraphNodes(gNew) \ CMRgraphNodes(g) :
      /\ gNew.numNodes = g.numNodes + 1
      /\ Cardinality(CMRgraphEdges(gNew)) = Cardinality(CMRgraphEdges(g)) + 3
      /\ {newRowEdge, newColumn1Edge, newColumn2Edge} \cap CMRgraphEdges(g) = {}
      /\ Cardinality({newRowEdge, newColumn1Edge, newColumn2Edge}) = 3
      /\ EdgeEnds(gNew, newColumn1Edge) = {N, OtherEnd(g, e, common)}
      /\ EdgeEnds(gNew, newColumn2Edge) = {N, OtherEnd(g, f, common)}
      /\ EdgeEnds(gNew, newRowEdge) = {N, common}
      /\ EdgesKept(g, gNew, {})

\* C21: the (1,2) handler, given the edges the parallel elements of its two
\* new columns resolve to, reports success exactly if the two edges share an
\* end node; on success no existing edge changes, one node and three edges
\* are added as OneRowTwoColumnsEffect says, the new edges stored in
\* columnEdges[baseNumColumns], columnEdges[baseNumColumns + 1] and
\* rowEdges[baseNumRows].
C21_OneRowTwoColumns ==
  [][(lastCall'.handler = "addToGraph1Row2Columns" /\ pc' # "undefined")
       => /\ lastCall'.isGraphic
               <=> (EdgeEnds(graph, ElementEdge(rowEdges, columnEdges,
                                      CMRelementTranspose(lastCall'.queries[1].result)))
                      \cap EdgeEnds(graph, ElementEdge(rowEdges, columnEdges,
                                      CMRelementTranspose(lastCall'.queries[2].result))) # {})
          /\ lastCall'.isGraphic
               => OneRowTwoColumnsEffect(graph, graph',
                    rowEdges'[NumRowsAt(extension - 1)],
                    columnEdges'[NumColumnsAt(extension - 1)],
                    columnEdges'[NumColumnsAt(extension - 1) + 1],
                    ElementEdge(rowEdges, columnEdges,
                                CMRelementTranspose(lastCall'.queries[1].result)),
                    ElementEdge(rowEdges, columnEdges,
                                CMRelementTranspose(lastCall'.queries[2].result)))
          /\ ~lastCall'.isGraphic
               => graph' = graph /\ rowEdges' = rowEdges /\ columnEdges' = columnEdges]_vars

C21_Witness ==
  /\ lastCall.handler = "addToGraph1Row2Columns"
  /\ lastCall.isGraphic
  /\ plastGraphicMinor >= 1
  /\ graph.numNodes - 1 \in EdgeEnds(graph, rowEdges[NumRowsAt(plastGraphicMinor) - 1])
  /\ graph.numNodes - 1 \in EdgeEnds(graph, columnEdges[NumColumnsAt(plastGraphicMinor) - 1])
  /\ graph.numNodes - 1 \in EdgeEnds(graph, columnEdges[NumColumnsAt(plastGraphicMinor) - 2])

\* The edges of the rows and columns placed before the running step.
PlacedEdges ==
  ({rowEdges[r] : r \in 0..(NumRowsAt(extension - 1) - 1)}
     \cup {columnEdges[c] : c \in 0..(NumColumnsAt(extension - 1) - 1)})
    \cap CMRgraphEdges(graph)

\* Edge x of g is an edge of gNew under the same identifier; an end it lost
\* is the node moved and was replaced by a node added by the step.
SameEdgeRewired(g, gNew, x, moved) ==
  /\ x \in CMRgraphEdges(gNew)
  /\ EdgeEnds(g, x) \ EdgeEnds(gNew, x) \subseteq moved
  /\ EdgeEnds(gNew, x) \ EdgeEnds(g, x) \subseteq CMRgraphNodes(gNew) \ CMRgraphNodes(g)
  /\ EdgeEnds(gNew, x) \cap EdgeEnds(g, x) # {}

\* The nodes a step may detach edges from: the split node of a (1,0) step,
\* the shared end of the two resolved edges of a (1,1) or (2,1) step.
MovedNodes(call) ==
  IF call.handler = "addToGraph1Row" THEN {call.splitNode}
  ELSE IF call.handler = "addToGraph1Row1Column"
    THEN EdgeEnds(graph, ElementEdge(rowEdges, columnEdges, call.queries[1].result))
           \cap EdgeEnds(graph, ElementEdge(rowEdges, columnEdges,
                                            CMRelementTranspose(call.queries[2].result)))
  ELSE IF call.handler = "addToGraph2Rows1Column"
    THEN EdgeEnds(graph, ElementEdge(rowEdges, columnEdges, call.queries[1].result))
           \cap EdgeEnds(graph, ElementEdge(rowEdges, columnEdges, call.queries[2].result))
  ELSE {}

\* C22: a step of any handler leaves the rowEdges and columnEdges entry of
\* every placed row and column unchanged; an entry that named an edge still
\* names an edge of the graph, under the identifier it had, and a rewired
\* edge keeps its far end and exchanges the other for a new node.
C22_EdgeIdentity ==
  [][(lastCall'.handler # "none" /\ pc' # "undefined" /\ pc # "start")
       => /\ \A r \in 0..(NumRowsAt(extension - 1) - 1) : rowEdges'[r] = rowEdges[r]
          /\ \A c \in 0..(NumColumnsAt(extension - 1) - 1) : columnEdges'[c] = columnEdges[c]
          /\ \A x \in PlacedEdges : SameEdgeRewired(graph, graph', x, MovedNodes(lastCall'))]_vars

\* A (1,0) step succeeded and moved the edge of a placed line to the sister
\* node.
C22_Witness ==
  /\ lastCall.handler = "addToGraph1Row"
  /\ lastCall.isGraphic
  /\ plastGraphicMinor >= 1
  /\ \E r \in 0..(NumRowsAt(plastGraphicMinor) - 2) :
       graph.numNodes - 1 \in EdgeEnds(graph, rowEdges[r])
  /\ \E c \in 0..(NumColumnsAt(plastGraphicMinor) - 1) :
       /\ columnEdges[c] \in CMRgraphEdges(graph)
       /\ graph.numNodes - 1 \in EdgeEnds(graph, columnEdges[c])

\* The loop of the driver has ended and every step was graphic.  Every graph
\* the loop holds at some step is the graph at the end of the run on the
\* shorter sequence.
LoopEnded == pc = "loop" /\ extension = lengthSequence

\* The columns whose entry of columnEdges names an edge of the graph.
AssignedColumns == {c \in DOMAIN columnEdges : columnEdges[c] \in CMRgraphEdges(graph)}

\* Without v and its incident edges, the remaining nodes of g are not all
\* joined along the edges E.
Disconnects(g, E, v) ==
  \E u \in CMRgraphNodes(g) \ {v} :
    /\ \A w \in CMRgraphNodes(g) \ {v} : u <= w
    /\ ReachVia(g, EdgesOff(g, E, v), {u}) # CMRgraphNodes(g) \ {v}

\* The flags are set on exactly the nodes that disconnect g along the
\* edges E.
FlagsArticulation(g, E, flags) ==
  \A v \in CMRgraphNodes(g) : (flags[v] # 0) <=> Disconnects(g, E, v)

\* C23: on the witness graph with the column-edges of any set of placed
\* columns disabled, as long as it stays connected, findArticulationPoints
\* flags exactly the nodes whose removal disconnects the remaining nodes.
C23_ArticulationPoints ==
  LoopEnded =>
    \A cols \in SUBSET AssignedColumns :
      (ReachVia(graph, CMRgraphEdges(graph) \ {columnEdges[c] : c \in cols}, {0})
         = CMRgraphNodes(graph))
        => FlagsArticulation(graph, CMRgraphEdges(graph) \ {columnEdges[c] : c \in cols},
                             findArticulationPoints(graph, columnEdges, SortedSeq(cols)))

\* A graph of the loop in which disabling two column-edges leaves a
\* connected graph with an articulation point other than the first node,
\* while the whole graph has none.
C23_Witness ==
  /\ LoopEnded
  /\ plastGraphicMinor >= 1
  /\ \A v \in CMRgraphNodes(graph) : ~IsArticulationPoint(graph, CMRgraphEdges(graph), v)
  /\ \E cols \in SUBSET AssignedColumns :
       /\ Cardinality(cols) = 2
       /\ Cardinality(ComponentsOf(graph, CMRgraphNodes(graph),
                                   CMRgraphEdges(graph) \ {columnEdges[c] : c \in cols})) = 1
       /\ \E v \in CMRgraphNodes(graph) \ {0} :
            /\ IsArticulationPoint(graph, CMRgraphEdges(graph) \ {columnEdges[c] : c \in cols}, v)
            /\ findArticulationPoints(graph, columnEdges, SortedSeq(cols))[v] # 0

\* Following nodesParent from v reaches the root within fuel steps.
RECURSIVE ClimbsToRoot(_, _, _, _)
ClimbsToRoot(g, nodesParent, v, fuel) ==
  IF v = CMRgraphNodesFirst(g) THEN TRUE
  ELSE IF fuel = 0 \/ v \notin CMRgraphNodes(g) THEN FALSE
  ELSE ClimbsToRoot(g, nodesParent, nodesParent[v], fuel - 1)

\* nodesParent is the parent array of the tree T of g rooted at the first
\* node.
IsParentArray(g, T, nodesParent) ==
  /\ nodesParent[CMRgraphNodesFirst(g)] = NoNode
  /\ \A v \in CMRgraphNodes(g) \ {CMRgraphNodesFirst(g)} :
       /\ nodesParent[v] \in CMRgraphNodes(g)
       /\ \E e \in T : EdgeEnds(g, e) = {v, nodesParent[v]}
       /\ ClimbsToRoot(g, nodesParent, v, g.numNodes)

\* findTreeParents on the graph of the loop gives the parent array of the
\* tree of row-edges for each of the given contents of nodesVisited and
\* nodesParent.
TreeParentsFor(scratchVisited, scratchParent) ==
  (pc = "loop" /\ InvTree(graph, rowEdges, NumRowsAt(extension - 1)))
    => \A sv \in scratchVisited : \A sp \in scratchParent :
         IsParentArray(graph, LineEdges(rowEdges, NumRowsAt(extension - 1)),
                       findTreeParents(graph, rowEdges, NumRowsAt(extension - 1), sv, sp))

\* The parent array is right when nodesVisited starts zeroed, whatever
\* nodesParent holds.
TreeParentsZeroedVisited ==
  TreeParentsFor({[v \in CMRgraphNodes(graph) |-> FALSE]}, ScratchParent(graph))

\* C24: for a graph satisfying I1 and whatever the freshly allocated buffers
\* hold, findTreeParents gives the root the parent none and every other node
\* a parent joined to it by a row-edge, from which the root is reached.
C24_TreeParents ==
  TreeParentsFor(ScratchVisited(graph), ScratchParent(graph))

\* The labeling comp = [nodesComponent, numComponents] of the nodes of g
\* other than removed along the edges E: the components are the classes of
\* equal label, the labels are 0..numComponents-1 in the order in which the
\* nodes 0, 1, ... first meet each component.
IsComponentLabeling(g, E, removed, comp) ==
  /\ comp.nodesComponent[removed] = NoNode
  /\ \A u \in CMRgraphNodes(g) \ {removed} :
       /\ comp.nodesComponent[u] \in 0..(comp.numComponents - 1)
       /\ \/ \E x \in 0..(u - 1) \ {removed} : comp.nodesComponent[x] = comp.nodesComponent[u]
          \/ /\ comp.nodesComponent[u]
                  = Cardinality({comp.nodesComponent[x] : x \in 0..(u - 1) \ {removed}})
             /\ {w \in CMRgraphNodes(g) \ {removed} :
                   comp.nodesComponent[w] = comp.nodesComponent[u]}
                  = ReachVia(g, E, {u})
  /\ comp.numComponents
       = Cardinality({comp.nodesComponent[u] : u \in CMRgraphNodes(g) \ {removed}})

\* C25: on the witness graph, for every removed node and every set of placed
\* columns whose column-edges are disabled, findComponents leaves the
\* removed node unlabeled and labels the other nodes 0..k-1 by the
\* components of the graph without the removed node and the disabled edges,
\* numbered in order of discovery.
C25_Components ==
  LoopEnded =>
    \A removed \in CMRgraphNodes(graph) : \A cols \in SUBSET AssignedColumns :
      IsComponentLabeling(graph,
                          EdgesOff(graph, CMRgraphEdges(graph) \ {columnEdges[c] : c \in cols},
                                   removed),
                          removed,
                          findComponents(graph, columnEdges, removed, SortedSeq(cols)))

\* A graph of the loop on which some call gives three components.
C25_Witness ==
  /\ LoopEnded
  /\ plastGraphicMinor >= 1
  /\ \E removed \in CMRgraphNodes(graph) : \E cols \in SUBSET AssignedColumns :
       /\ findComponents(graph, columnEdges, removed, SortedSeq(cols)).numComponents = 3
       /\ findComponents(graph, columnEdges, removed, SortedSeq(cols)).nodesComponent[graph.numNodes - 1] = 1

\* g has no odd cycle: its nodes can be 2-colored with the two ends of every
\* edge colored differently.
HasNoOddCycle(g) ==
  \E side \in [CMRgraphNodes(g) -> {0, 1}] :
    \A e \in CMRgraphEdges(g) : side[CMRgraphEdgeU(g, e)] # side[CMRgraphEdgeV(g, e)]

\* C26: findBipartition reports true exactly if the graph has no odd cycle;
\* then every node has colour 0 or 1, the ends of every edge have different
\* colours, and the first node of every connected component has colour 0.
C26_Bipartition ==
  bipartite.called =>
    /\ bipartite.ok <=> HasNoOddCycle(graph)
    /\ bipartite.ok =>
         /\ \A v \in CMRgraphNodes(graph) : bipartite.bipartition[v] \in {0, 1}
         /\ \A e \in CMRgraphEdges(graph) :
              bipartite.bipartition[CMRgraphEdgeU(graph, e)]
                # bipartite.bipartition[CMRgraphEdgeV(graph, e)]
         /\ \A v \in CMRgraphNodes(graph) :
              (\A w \in ReachVia(graph, CMRgraphEdges(graph), {v}) : v <= w)
                => bipartite.bipartition[v] = 0

\* A bipartite graph of four nodes and four edges was colored, with a node
\* other than the first one of colour 0.
C26_Witness ==
  /\ bipartite.called
  /\ bipartite.ok
  /\ graph.numNodes = 4
  /\ Cardinality(CMRgraphEdges(graph)) = 4
  /\ \E v \in CMRgraphNodes(graph) \ {0} : bipartite.bipartition[v] = 0

\* Every release of the trace events[i..] releases the object made last among
\* those of live still held, and none is held at the end.  Graphs count as
\* objects only when withGraphs is set.
RECURSIVE Nested(_, _, _, _)
Nested(events, i, live, withGraphs) ==
  IF i > Len(events) THEN live = << >>
  ELSE IF ~withGraphs /\ events[i].op \in {"create", "destroy"}
    THEN Nested(events, i + 1, live, withGraphs)
  ELSE IF events[i].op \in {"alloc", "create"}
    THEN Nested(events, i + 1, Append(live, events[i].name), withGraphs)
  ELSE /\ live # << >>
       /\ live[Len(live)] = events[i].name
       /\ Nested(events, i + 1, SubSeq(live, 1, Len(live) - 1), withGraphs)

IsGraphCall(event) == event.op \in {"create", "destroy"}

\* Every graph the trace creates is destroyed later in the trace.
GraphsReleased(events) == Nested(SelectSeq(events, IsGraphCall), 1, << >>, TRUE)

UtilityTraces ==
  {findArticulationPointsScratch, findTreeParentsScratch, findComponentsScratch,
   findBipartitionScratch}

\* A step of the driver in which a handler ran to its return.
HandlerReturned(handler, newPc) == handler \notin {"none", "createWheel"} /\ newPc # "undefined"

\* C27 as stated: on every return of a handler or utility, with success or
\* with a non-graphic failure, the scratch buffers and the auxiliary graph it
\* made have been released in reverse order of their making, and the scratch
\* stack is as deep as at entry.
C27_ReleasedInReverseOrder ==
  [][HandlerReturned(lastCall'.handler, pc')
       => /\ scratchStack' = scratchStack
          /\ Nested(HandlerScratch(lastCall'.handler, lastCall'.decided), 1, << >>, TRUE)]_vars

\* C27, amended: on every return of a handler or utility, with success or with
\* a non-graphic failure, each release of a scratch buffer releases the buffer
\* allocated last among those still held, the auxiliary graph has been freed
\* (after the component labels, which were allocated before it), the scratch
\* stack is as deep as at entry, and it is empty when the driver returns.
C27_ScratchReleased ==
  [][/\ HandlerReturned(lastCall'.handler, pc')
          => /\ scratchStack' = scratchStack
             /\ Nested(HandlerScratch(lastCall'.handler, lastCall'.decided), 1, << >>, FALSE)
             /\ GraphsReleased(HandlerScratch(lastCall'.handler, lastCall'.decided))
     /\ \A trace \in UtilityTraces : Nested(trace, 1, << >>, TRUE)
     /\ pc' = "done" => scratchStack' = << >>]_vars

\* addToGraph1Row returned after the reassignment, with every buffer of its
\* longest path allocated and released, and the driver's five buffers are the
\* only ones on the stack.
C27_Witness ==
  /\ pc = "loop"
  /\ lastCall.handler = "addToGraph1Row"
  /\ lastCall.decided = "graphic"
  /\ scratchStack = RunScratch(DriverAllocations, 1, << >>)
  /\ Len(scratchStack) = 5

\* addToGraph1Row returned a non-graphic failure after it had made the
\* auxiliary graph, and the stack is as deep as before the call.
C27_WitnessFailure ==
  /\ pc = "exit"
  /\ lastCall.handler = "addToGraph1Row"
  /\ lastCall.decided = "notBipartite"
  /\ Len(scratchStack) = 5


\* The sum of the weights hashVector[i] over the indices i of the set.
RECURSIVE WeightSum(_, _)
WeightSum(hVector, indices) ==
  IF indices = {} THEN 0
  ELSE LET i == CHOOSE j \in indices : TRUE
       IN HashWeight(hVector, i) + WeightSum(hVector, indices \ {i})

\* The accumulator of the line of the matrix m (a row of the matrix or of its
\* transpose) when numMajor lines and numMinor crossing lines are processed.
ExpectedHash(m, line, numMajor, numMinor) ==
  IF line < numMajor
    THEN projectSignedHash(WeightSum(hashVector, RestrictedSupport(m, line, numMinor)))
    ELSE 0

\* C28: after the wheel is built and after every successful step, the
\* accumulator of a processed row is the projected sum of hashVector[c] over
\* the processed columns c with a nonzero in that row, the accumulator of a
\* processed column is the projected sum of hashVector[r] over the processed
\* rows r with a nonzero in that column, every nonzero counting once, and the
\* accumulators of unprocessed rows and columns are 0.
C28_HashAccumulators ==
  pc \in {"loop", "exit"}
    => /\ \A row \in 0..(matrix.numRows - 1) :
            rowHashValues[row] = ExpectedHash(matrix, row, NumRowsAt(extension - 1),
                                              NumColumnsAt(extension - 1))
       /\ \A column \in 0..(matrix.numColumns - 1) :
            columnHashValues[column] = ExpectedHash(transpose, column,
                                                    NumColumnsAt(extension - 1),
                                                    NumRowsAt(extension - 1))

\* A step has succeeded, a row and a column added after the wheel have
\* nonzero accumulators, and a row or a column of the matrix is not yet
\* processed.
C28_Witness ==
  /\ pc = "loop"
  /\ extension >= 2
  /\ \E row \in NumRowsAt(0)..(NumRowsAt(extension - 1) - 1) : rowHashValues[row] # 0
  /\ \E column \in NumColumnsAt(0)..(NumColumnsAt(extension - 1) - 1) :
       columnHashValues[column] # 0
  /\ \/ NumRowsAt(extension - 1) < matrix.numRows
     \/ NumColumnsAt(extension - 1) < matrix.numColumns


NumEdges(g) == Cardinality(CMRgraphEdges(g))

\* C29: after the wheel is built and after every successful step the graph
\* has one node more than there are processed rows and as many edges as there
\* are processed rows and columns; a handler that succeeds adds as many nodes
\* as the step has new rows and as many edges as it has new rows and columns.
C29_Sizes ==
  [][pc' = "loop"
       => /\ CMRgraphNumNodes(graph') = NumRowsAt(extension' - 1) + 1
          /\ NumEdges(graph') = NumRowsAt(extension' - 1) + NumColumnsAt(extension' - 1)
          /\ pc = "loop"
               => /\ CMRgraphNumNodes(graph') - CMRgraphNumNodes(graph)
                       = NumRowsAt(extension' - 1) - NumRowsAt(extension - 1)
                  /\ NumEdges(graph') - NumEdges(graph)
                       = (NumRowsAt(extension' - 1) - NumRowsAt(extension - 1))
                           + (NumColumnsAt(extension' - 1) - NumColumnsAt(extension - 1))]_vars

\* Two steps have succeeded, one of them a (1,0) step in which the handler
\* split a node, the other one adding a column.
C29_Witness ==
  /\ pc = "loop"
  /\ extension = 3
  /\ lastCall.isGraphic
  /\ NumColumnsAt(2) > NumColumnsAt(0)
  /\ CMRgraphNumNodes(graph) > NumRowsAt(0) + 1
  /\ \E step \in 1..2 : /\ NumRowsAt(step) - NumRowsAt(step - 1) = 1
                        /\ NumColumnsAt(step) = NumColumnsAt(step - 1)


\* The handler of each case of the dispatch.
HandlerOf(case) ==
  IF case = << 1, 1 >> THEN "addToGraph1Row1Column"
  ELSE IF case = << 2, 1 >> THEN "addToGraph2Rows1Column"
  ELSE IF case = << 1, 2 >> THEN "addToGraph1Row2Columns"
  ELSE IF case = << 0, 1 >> THEN "addToGraph1Column"
  ELSE IF case = << 1, 0 >> THEN "addToGraph1Row"
  ELSE "none"

\* The first part of C30: a step whose difference of boundaries is one of
\* (1,1), (2,1), (1,2), (0,1), (1,0) runs the handler of that case and no
\* other.
C30_DispatchValid ==
  [][(pc = "loop" /\ extension < lengthSequence)
       => /\ StepCase(extension) \in DispatchCases
          /\ lastCall'.handler = HandlerOf(StepCase(extension))]_vars

\* A step of the valid driver ran the (1,2) handler.
C30_DispatchValidWitness ==
  /\ lastCall.handler = "addToGraph1Row2Columns"
  /\ pc = "loop"
  /\ StepCase(extension - 1) = << 1, 2 >>

\* The state asks for a step that is none of the five cases, or for a first
\* minor that is not square.
Malformed ==
  \/ pc = "start" /\ NumRowsAt(0) # NumColumnsAt(0)
  \/ pc = "loop" /\ extension < lengthSequence /\ StepCase(extension) \notin DispatchCases

============================================================================
